---- MODULE Spec2Model ----
(***************************************************************************)
(* A model of the iris gateway's query/submit engine (Go, package main):   *)
(* the mempool (mempool.go), the coin selector, the submit pipeline and    *)
(* the global RW mutex of the HTTP handlers.                               *)
(*                                                                         *)
(* Time is counted in whole seconds.  Transaction IDs are hex strings of   *)
(* one fixed width (64 characters in the program, 2 here), so the key      *)
(* txID ++ decimal(outputIndex) that the program formats is modelled by    *)
(* the same concatenation.                                                 *)
(***************************************************************************)
EXTENDS Integers, Sequences, FiniteSets, TLC

VARIABLES
    locked,     \* CoinSelector.locked: key -> expiry
    smu,        \* CoinSelector.mu: the worker that holds it, or NoProc
    sel,        \* the last coin selection: its request, its inputs and its response
    now,        \* the wall clock, in seconds (time.Now())
    txs,        \* Mempool.txs: txID -> [ttl]
    mu,         \* Handler.mu, the top-level RW mutex: [writer, readers]
    pc,         \* per request worker: its position in the handler it runs
    rq,         \* per request worker: the handler's local variables
    ov,         \* the last Mempool.Overlay call: its arguments and its result
    mmu,        \* Mempool.mu: [writer, readers]
    pmu,        \* ParametersCache.mu: [writer, readers]
    imu,        \* ImmStore.mu: [writer, readers]
    vmu,        \* VolStore.mu: [writer, readers]
    store,      \* the Store: its immutable and volatile chunks, loadedTip
    disk,       \* the chunk files of the node's database directory
    paramsCache \* Handler.paramsCache: [params, ttl]

\* The subsystems behind the handlers other than the mempool's transactions
\* and the coin selector.
subsystems == <<mmu, pmu, imu, vmu, store, disk, paramsCache>>

vars == <<now, txs, mu, pc, rq, ov, locked, smu, sel, subsystems>>

\* ------------------------------------------------------------------ bounds

NumProcs == 2
MaxTime == 2

Procs == 1..NumProcs
NoProc == 0

\* ------------------------------------------------------- transactions, UTXOs

\* The zero value of time.Time (year 1), which Time.IsZero() recognises.
ZeroTime == -1

TxIDs == {"a1", "a2"}

AddrA == "addrA"
AddrB == "addrB"

\* ledgerUtxoToUTXO(prod): the UTXO record built from a produced output.
UTXO(txID, outputIndex, address, lovelace, assets) ==
    [txID |-> txID, outputIndex |-> outputIndex, address |-> address,
     lovelace |-> lovelace, assets |-> assets]

Asset(asset, quantity) == [asset |-> asset, quantity |-> quantity]

\* An input reference (cons.Id(), cons.Index()).
In(txID, index) == [txID |-> txID, index |-> index]

\* The transactions a client may submit (tx.Produced(), tx.Consumed()): a2 spends
\* the output of a1 (a chain of pending transactions) and also pays to another
\* address.
Produced(h) ==
    CASE h = "a1" -> {UTXO("a1", 0, AddrA, 5, <<>>)}
      [] h = "a2" -> {UTXO("a2", 0, AddrA, 3, <<Asset("tok", 2)>>),
                      UTXO("a2", 1, AddrB, 4, <<>>)}

Consumed(h) ==
    CASE h = "a1" -> {In("g0", 0)}
      [] h = "a2" -> {In("a1", 0)}

\* The output of an earlier, confirmed transaction g0.
GenesisUTXOs == {UTXO("g0", 0, AddrA, 7, <<>>)}

AllUTXOs == GenesisUTXOs \cup UNION {Produced(h) : h \in TxIDs}

\* utxoKey(u) and the keys Overlay formats: fmt.Sprintf("%s%d", txID, index).
KeyOf(txID, index) == txID \o ToString(index)

utxoKey(u) == KeyOf(u.txID, u.outputIndex)

\* ------------------------------------------------------- sync.RWMutex

\* A sync.RWMutex as [writer, readers].  (Go also holds back new readers while
\* a writer waits; that changes which schedules happen, not what a holder of
\* the lock may assume.)
Unlocked == [writer |-> NoProc, readers |-> {}]

\* A read lock that never waits.
CanRLock_always(m) == TRUE

CanRLock(m) == m.writer = NoProc

RLock(m, p) == [m EXCEPT !.readers = @ \cup {p}]

RUnlock(m, p) == [m EXCEPT !.readers = @ \ {p}]

\* A Lock that does not wait.
CanLock_always(m) == TRUE

CanLock(m) == m.writer = NoProc /\ m.readers = {}

Lock(m, p) == [m EXCEPT !.writer = p]

Unlock(m, p) == [m EXCEPT !.writer = NoProc]

\* --------------------------------------------------------------- Mempool

Restrict(f, S) == [x \in S |-> f[x]]

\* Mempool.AddTx: m.txs[hash] = MempoolTx{Tx, SubmittedAt: now, TTL: ttl}; the
\* same key overwrites.  SubmittedAt is never read and is left out.
AddTx(m, h, ttl) ==
    [x \in DOMAIN m \cup {h} |-> IF x = h THEN [ttl |-> ttl] ELSE m[x]]

\* The eviction test of prune: !tx.TTL.IsZero() && now.After(tx.TTL).
Expired(e, t) == e.ttl # ZeroTime /\ t > e.ttl

\* First pass of prune: delete the expired entries; ids is what remains.
KeepUnexpired(m, t) == Restrict(m, {h \in DOMAIN m : ~Expired(m[h], t)})

\* A second pass that deletes nothing.
DropNotMissing_none(m, ids, missing) == m

\* Second pass of prune: delete every id of ids that is not in the missing set.
DropNotMissing(m, ids, missing) ==
    Restrict(m, {h \in DOMAIN m : ~(h \in ids /\ h \notin missing)})

\* Mempool.prune run without interruption; q is the outcome of the query,
\* [ok, missing].  With no ids left the query is not made.
Prune(m, t, q) ==
    LET m1 == KeepUnexpired(m, t)
        ids == DOMAIN m1
    IN  IF ids = {} \/ ~q.ok THEN m1 ELSE DropNotMissing(m1, ids, q.missing)

\* Mempool.Hashes: the keys of m.txs (returned sorted).
Hashes(m) == DOMAIN m

\* strings.EqualFold on the asset names of the model.
ToLower(s) ==
    CASE s = "TOK" -> "tok"
      [] s = "Lovelace" -> "lovelace"
      [] s = "Largest" -> "largest"
      [] s = "Largest-First" -> "largest-first"
      [] OTHER -> s

EqualFold(s, t) == ToLower(s) = ToLower(t)

\* The filters getAddressUTXOs builds, and the nil filter Overlay also accepts.
Passes(filter, u) ==
    CASE filter.kind = "nil" -> TRUE
      [] filter.kind = "all" -> u.address = filter.addr
      [] filter.kind = "lovelace" -> u.address = filter.addr /\ Len(u.assets) = 0
      [] filter.kind = "asset" ->
            /\ u.address = filter.addr
            /\ \E i \in 1..Len(u.assets) : EqualFold(u.assets[i].asset, filter.asset)

Filters ==
    {[kind |-> "nil"], [kind |-> "all", addr |-> AddrA],
     [kind |-> "lovelace", addr |-> AddrA],
     [kind |-> "asset", addr |-> AddrA, asset |-> "TOK"]}

\* utxoMap of Overlay after the loop over base.
BaseMap(base) ==
    [k \in {utxoKey(u) : u \in base} |-> CHOOSE u \in base : utxoKey(u) = k]

\* One iteration of Overlay's loop over m.txs: the produced outputs whose key
\* is absent and that pass the filter are added, then the keys of the
\* consumed inputs are deleted.
OverlayProduced(utxoMap, h, filter) ==
    LET adds == {u \in Produced(h) :
                    utxoKey(u) \notin DOMAIN utxoMap /\ Passes(filter, u)}
    IN  [k \in DOMAIN utxoMap \cup {utxoKey(u) : u \in adds} |->
            IF k \in DOMAIN utxoMap THEN utxoMap[k]
            ELSE CHOOSE u \in adds : utxoKey(u) = k]

OverlayConsumed(utxoMap, h) ==
    Restrict(utxoMap,
             DOMAIN utxoMap \ {KeyOf(c.txID, c.index) : c \in Consumed(h)})

OverlayTx(utxoMap, h, filter) ==
    OverlayConsumed(OverlayProduced(utxoMap, h, filter), h)

\* The loop over m.txs in the order `order` the map iteration happens to take.
RECURSIVE OverlayLoop(_, _, _)
OverlayLoop(utxoMap, order, filter) ==
    IF order = <<>> THEN utxoMap
    ELSE OverlayLoop(OverlayTx(utxoMap, Head(order), filter), Tail(order), filter)

\* The orders in which a Go map with key set S can be iterated.
Orders(S) ==
    {o \in [1..Cardinality(S) -> S] : \A i, j \in DOMAIN o : o[i] = o[j] => i = j}

\* Mempool.Overlay after its prune: the values of utxoMap.
Overlay(base, filter, order) ==
    LET utxoMap == OverlayLoop(BaseMap(base), order, filter)
    IN  {utxoMap[k] : k \in DOMAIN utxoMap}

\* ------------------------------------------ the Mempool API, one caller

EmptyMap == [x \in {} |-> 0]

NoCall == [done |-> FALSE]

\* The deadlines submitTx gives AddTx within the horizon of the model (the
\* node rejects a transaction whose TTL has passed).
TTLs == now..MaxTime

\* The outcomes of DB.FilterMissingTxs(ids): an error, or the ids of the input
\* that have no row in the ledger table tx, which is any part of the input.
QueryOutcomes(ids) ==
    {[ok |-> FALSE, missing |-> {}]} \cup {[ok |-> TRUE, missing |-> S] : S \in SUBSET ids}

\* ImmStore.blockPtrs and VolStore.blockPtrs before indexBlocks ran: nil.
NilPtrs == [nil |-> TRUE, ptrs |-> EmptyMap]

\* A database directory without chunk files, and the Store LoadStore makes
\* of it.  The immutable chunk with id i stands at position i + 1.
EmptyDisk == [immutable |-> <<>>, volatile |-> EmptyMap]

EmptyStore ==
    [immutable |-> [chunks |-> <<>>, blockPtrs |-> NilPtrs],
     volatile |-> [chunks |-> EmptyMap, latestChunk |-> 0, blockPtrs |-> NilPtrs],
     loadedTip |-> ""]

\* &ParametersCache{}: params is nil ("") and ttl the zero time.
EmptyCache == [params |-> "", ttl |-> ZeroTime]

\* The mutexes of the subsystems unlocked; no chunk files; the parameters
\* cache empty.
FreshStore ==
    /\ paramsCache = EmptyCache
    /\ mmu = Unlocked
    /\ pmu = Unlocked
    /\ imu = Unlocked
    /\ vmu = Unlocked
    /\ disk = EmptyDisk
    /\ store = EmptyStore

NoSelection == [done |-> FALSE]

\* NewCoinSelector, and no selection made yet.
FreshSelector ==
    /\ locked = EmptyMap
    /\ smu = NoProc

IdleProcs ==
    /\ mu = Unlocked
    /\ pc = [p \in Procs |-> "idle"]
    /\ rq = [p \in Procs |-> [kind |-> "none"]]

InitOverlay ==
    /\ now = 0
    /\ txs = EmptyMap
    /\ ov = NoCall
    /\ FreshSelector
    /\ FreshStore
    /\ sel = NoSelection
    /\ IdleProcs

\* m.AddTx(tx, ttl)
MpAddTx(h, ttl) ==
    /\ ~ov.done
    /\ txs' = AddTx(txs, h, ttl)
    /\ UNCHANGED <<subsystems, now, mu, pc, rq, ov, locked, sel, smu>>

\* A second passes.
MpTick ==
    /\ ~ov.done
    /\ now < MaxTime
    /\ now' = now + 1
    /\ UNCHANGED <<subsystems, txs, mu, pc, rq, ov, locked, sel, smu>>

\* m.Overlay(base, filter): prune, then the loop over m.txs in some order.
MpOverlay(base, filter) ==
    /\ ~ov.done
    /\ \E q \in QueryOutcomes(DOMAIN KeepUnexpired(txs, now)) :
          LET m1 == Prune(txs, now, q) IN
          \E order \in Orders(DOMAIN m1) :
             /\ txs' = m1
             /\ ov' = [done |-> TRUE, base |-> base, filter |-> filter, q |-> q,
                       before |-> txs, result |-> Overlay(base, filter, order)]
    /\ UNCHANGED <<subsystems, now, mu, pc, rq, locked, sel, smu>>

NextOverlay ==
    \/ \E h \in TxIDs, ttl \in TTLs : MpAddTx(h, ttl)
    \/ MpTick
    \/ \E base \in SUBSET AllUTXOs, filter \in Filters : MpOverlay(base, filter)

SpecOverlay == InitOverlay /\ [][NextOverlay]_vars

Keys(utxos) == {utxoKey(u) : u \in utxos}

\* C1: if a transaction that is in the mempool after Overlay's prune consumes
\* a UTXO of base, the list Overlay returns has no UTXO with that key.
OverlayConsumption ==
    ov.done =>
        \A h \in DOMAIN txs : \A c \in Consumed(h) :
            KeyOf(c.txID, c.index) \in Keys(ov.base)
                => KeyOf(c.txID, c.index) \notin Keys(ov.result)

\* ------------------------------- concurrent GET /api/mempool and submits

\* The workers that are inside Mempool.prune, between its two passes.
InPrune(p) == pc[p] \in {"pass1", "queried"}

\* Book-keeping for the claims: every worker still inside prune records the
\* ids that worker p deletes meanwhile.
NoteDeleted(r, p, deleted) ==
    [x \in Procs |->
        IF x # p /\ InPrune(x) THEN [r[x] EXCEPT !.others = @ \cup deleted]
        ELSE r[x]]

\* The entries of m whose TTL deadline is not before t (book-keeping for the
\* claims: what prune is said to keep, recorded when prune is called).
NotPast(m, t) == {h \in DOMAIN m : ~(m[h].ttl < t)}

InitMempool ==
    /\ now = 0
    /\ txs = EmptyMap
    /\ ov = NoCall
    /\ FreshSelector
    /\ FreshStore
    /\ sel = NoSelection
    /\ IdleProcs

\* Handler.mempoolTxs: h.mu.RLock()
MtRLock(p) ==
    /\ pc[p] = "idle"
    /\ CanRLock(mu)
    /\ mu' = RLock(mu, p)
    /\ pc' = [pc EXCEPT ![p] = "rlocked"]
    /\ UNCHANGED <<subsystems, now, txs, rq, ov, locked, sel, smu>>

\* Mempool.prune, lines 73-90: now is read, the expired entries are deleted
\* under m.mu, and prune returns if no id is left.
PrunePass1(p) ==
    /\ pc[p] = "rlocked"
    /\ LET m1 == KeepUnexpired(txs, now)
           ids == DOMAIN m1
           r == [kind |-> "mempoolTxs", live |-> NotPast(txs, now), ids |-> ids,
                 q |-> [ok |-> FALSE, missing |-> {}], asked |-> FALSE,
                 others |-> {}, ret |-> Hashes(m1)]
       IN  /\ txs' = m1
           /\ rq' = NoteDeleted([rq EXCEPT ![p] = r], p, DOMAIN txs \ ids)
           /\ pc' = [pc EXCEPT ![p] = IF ids = {} THEN "pruned" ELSE "pass1"]
    /\ UNCHANGED <<subsystems, now, mu, ov, locked, sel, smu>>

\* A query step that goes on to the second pass after a failed query.
PruneQuery_dropOnError(p) ==
    /\ pc[p] = "pass1"
    /\ \E q \in QueryOutcomes(rq[p].ids) :
          /\ rq' = [rq EXCEPT ![p].q = q, ![p].asked = TRUE, ![p].ret = Hashes(txs)]
          /\ pc' = [pc EXCEPT ![p] = "queried"]
    /\ UNCHANGED <<subsystems, now, txs, mu, ov, locked, sel, smu>>

\* Mempool.prune, lines 92-102: the query, made with m.mu released; prune
\* returns if it failed.
PruneQuery(p) ==
    /\ pc[p] = "pass1"
    /\ \E q \in QueryOutcomes(rq[p].ids) :
          /\ rq' = [rq EXCEPT ![p].q = q, ![p].asked = TRUE, ![p].ret = Hashes(txs)]
          /\ pc' = [pc EXCEPT ![p] = IF q.ok THEN "queried" ELSE "pruned"]
    /\ UNCHANGED <<subsystems, now, txs, mu, ov, locked, sel, smu>>

\* Mempool.prune, lines 104-110: the ids not reported missing are deleted
\* under m.mu.
PrunePass2(p) ==
    /\ pc[p] = "queried"
    /\ LET m2 == DropNotMissing(txs, rq[p].ids, rq[p].q.missing)
       IN  /\ txs' = m2
           /\ rq' = NoteDeleted([rq EXCEPT ![p].ret = Hashes(m2)], p,
                                 DOMAIN txs \ DOMAIN m2)
    /\ pc' = [pc EXCEPT ![p] = "pruned"]
    /\ UNCHANGED <<subsystems, now, mu, ov, locked, sel, smu>>

\* Handler.mempoolTxs: hashes := h.mempool.Hashes(), the response, RUnlock.
MtRespond(p) ==
    /\ pc[p] = "pruned"
    /\ mu' = RUnlock(mu, p)
    /\ pc' = [pc EXCEPT ![p] = "idle"]
    /\ rq' = [rq EXCEPT ![p] = [kind |-> "none"]]
    /\ UNCHANGED <<subsystems, now, txs, ov, locked, sel, smu>>

\* A successful Handler.submitTx as the other requests see it: the mempool
\* gains the transaction while the write lock is held.
MtSubmit(h, ttl) ==
    /\ CanLock(mu)
    /\ txs' = AddTx(txs, h, ttl)
    /\ UNCHANGED <<subsystems, now, mu, pc, rq, ov, locked, sel, smu>>

MtTick ==
    /\ now < MaxTime
    /\ now' = now + 1
    /\ UNCHANGED <<subsystems, txs, mu, pc, rq, ov, locked, sel, smu>>

NextMempool ==
    \/ \E p \in Procs : MtRLock(p)
    \/ \E p \in Procs : PrunePass1(p)
    \/ \E p \in Procs : PruneQuery(p)
    \/ \E p \in Procs : PrunePass2(p)
    \/ \E p \in Procs : MtRespond(p)
    \/ \E h \in TxIDs, ttl \in TTLs : MtSubmit(h, ttl)
    \/ MtTick

SpecMempool == InitMempool /\ [][NextMempool]_vars

PruneReturned(p) == pc[p] = "pruned"

\* C2 as stated: when the query succeeded, what Hashes() returns once prune
\* has returned is exactly the previously stored transactions that are not
\* expired and that the query reported missing.
PruneSuccessExact ==
    \A p \in Procs :
        PruneReturned(p) /\ rq[p].asked /\ rq[p].q.ok =>
            rq[p].ret = {h \in rq[p].live : h \in rq[p].q.missing}

\* C2 as amended: the same, less what another prune call deleted meanwhile.
PruneSuccessExactButOthers ==
    \A p \in Procs :
        PruneReturned(p) /\ rq[p].asked /\ rq[p].q.ok =>
            rq[p].ret = {h \in rq[p].live : h \in rq[p].q.missing}
                            \ rq[p].others

\* A prune whose query succeeded has returned, having kept one transaction and
\* dropped another as confirmed.
PruneSuccessWitness ==
    \E p \in Procs :
        /\ PruneReturned(p) /\ rq[p].asked /\ rq[p].q.ok
        /\ rq[p].ret # {}
        /\ rq[p].ids \ rq[p].q.missing # {}

\* C3 as stated: when the query failed, every entry whose TTL deadline was not
\* in the past when prune was called is in the mempool when prune returns.
PruneFailureKeeps ==
    \A p \in Procs :
        PruneReturned(p) /\ rq[p].asked /\ ~rq[p].q.ok => rq[p].ret = rq[p].live

\* C3 as amended: the same, less what another prune call deleted meanwhile;
\* the call itself deleted only expired entries.
PruneFailureKeepsButOthers ==
    \A p \in Procs :
        PruneReturned(p) /\ rq[p].asked /\ ~rq[p].q.ok =>
            rq[p].ret = rq[p].live \ rq[p].others

\* A prune whose query failed has returned and the mempool is not empty.
PruneFailureWitness ==
    \E p \in Procs :
        /\ PruneReturned(p) /\ rq[p].asked /\ ~rq[p].q.ok
        /\ rq[p].ret # {}

\* ---------------------------------------------------------- CoinSelector

\* time.Duration of the lock selectUTXOs takes on every selected UTXO, seconds.
LockTTL == 10

\* CoinSelector.pruneExpired at time t: delete the entries with now.After(v).
pruneExpired(lk, t) == Restrict(lk, {k \in DOMAIN lk : ~(t > lk[k])})

\* An isLocked that reports no key as locked.
isLocked_never(lk, k, t) == FALSE

\* CoinSelector.isLocked at time t: present and time.Now().Before(ttl).
isLocked(lk, k, t) == k \in DOMAIN lk /\ t < lk[k]

\* CoinSelector.lock at time t: cs.locked[key] = time.Now().Add(ttl).
lock(lk, k, t, ttl) ==
    [x \in DOMAIN lk \cup {k} |-> IF x = k THEN t + ttl ELSE lk[x]]

\* The loop of selectUTXOs that locks every selected UTXO.
RECURSIVE LockAll(_, _, _)
LockAll(lk, selected, t) ==
    IF selected = <<>> THEN lk
    ELSE LockAll(lock(lk, utxoKey(Head(selected)), t, LockTTL), Tail(selected), t)

\* ------------------------------------------------ Handler.selectUTXOs

\* The rows of DB.AddressUTXOs(addr) in the model's ledger.
SqlUTXOs ==
    GenesisUTXOs \cup {UTXO("g1", 0, AddrA, 2, <<Asset("tok", 2)>>),
                       UTXO("g1", 1, AddrA, 2, <<>>)}

AddressUTXOs(addr) == {u \in SqlUTXOs : u.address = addr}

\* The rows of DB.AddressUTXOsWithAsset(addr, asset).
AddressUTXOsWithAsset(addr, asset) ==
    {u \in SqlUTXOs :
        /\ u.address = addr
        /\ IF ToLower(asset) = "lovelace" THEN Len(u.assets) = 0
           ELSE \E i \in 1..Len(u.assets) : EqualFold(u.assets[i].asset, asset)}

\* getAddressUTXOs: the query and the filter it hands to Overlay.
QueryFor(addr, asset) ==
    IF asset # "" THEN AddressUTXOsWithAsset(addr, asset) ELSE AddressUTXOs(addr)

FilterFor(addr, asset) ==
    IF asset # ""
    THEN IF ToLower(asset) # "lovelace"
         THEN [kind |-> "asset", addr |-> addr, asset |-> asset]
         ELSE [kind |-> "lovelace", addr |-> addr]
    ELSE [kind |-> "all", addr |-> addr]

\* new(big.Int).SetString(s, 10) on the decimal strings of the model: the
\* number, or nil when s is no decimal number.
SetString(s) ==
    CASE s = "0" -> [ok |-> TRUE, v |-> 0]
      [] s = "2" -> [ok |-> TRUE, v |-> 2]
      [] s = "3" -> [ok |-> TRUE, v |-> 3]
      [] s = "9" -> [ok |-> TRUE, v |-> 9]
      [] s = "20" -> [ok |-> TRUE, v |-> 20]
      [] OTHER -> [ok |-> FALSE, v |-> 0]

\* The comparison of sort.Slice: descending by lovelace for the algorithms
\* largest and largest-first (compared with EqualFold), ascending otherwise.
Descending(algorithm) ==
    ToLower(algorithm) = "largest" \/ ToLower(algorithm) = "largest-first"

Less_ascending(u, v, algorithm) == u.lovelace < v.lovelace

Less(u, v, algorithm) ==
    IF Descending(algorithm) THEN u.lovelace > v.lovelace ELSE u.lovelace < v.lovelace

\* The orders sort.Slice (not stable) can leave the slice in.
SortedOrders(utxos, algorithm) ==
    {o \in Orders(utxos) :
        \A i, j \in DOMAIN o : i < j => ~Less(o[j], o[i], algorithm)}

\* The quantity of the requested asset in a UTXO (names compared with EqualFold).
RECURSIVE AssetSum(_, _)
AssetSum(assets, asset) ==
    IF assets = <<>> THEN 0
    ELSE (IF EqualFold(Head(assets).asset, asset) THEN Head(assets).quantity ELSE 0)
         + AssetSum(Tail(assets), asset)

\* The accumulation loop, lines 325-342.  A comparison with a nil big.Int
\* (a number of the request that did not parse) panics.
RECURSIVE Accumulate(_, _, _)
Accumulate(rest, acc, req) ==
    IF rest = <<>> THEN acc
    ELSE LET u == Head(rest)
             needLov == SetString(req.lovelace)
             needAsset == SetString(req.minQuantity)
             a1 == [selected |-> Append(acc.selected, u),
                    gotLov |-> acc.gotLov + u.lovelace,
                    gotAsset |-> acc.gotAsset
                        + (IF req.asset # "" THEN AssetSum(u.assets, req.asset) ELSE 0),
                    panic |-> FALSE]
         IN  IF ~needLov.ok THEN [a1 EXCEPT !.panic = TRUE]
             ELSE IF a1.gotLov >= needLov.v
                  THEN IF req.asset = "" THEN a1
                       ELSE IF ~needAsset.ok THEN [a1 EXCEPT !.panic = TRUE]
                       ELSE IF a1.gotAsset >= needAsset.v THEN a1
                       ELSE Accumulate(Tail(rest), a1, req)
                  ELSE Accumulate(Tail(rest), a1, req)

\* The test after the loop, lines 344-347: 404, or 200; 0 stands for the panic
\* that ends the request without a response.
SelectStatus(acc, req) ==
    LET needLov == SetString(req.lovelace)
        needAsset == SetString(req.minQuantity)
    IN  IF acc.panic \/ ~needLov.ok THEN 0
        ELSE IF acc.gotLov < needLov.v THEN 404
        ELSE IF req.asset = "" THEN 200
        ELSE IF ~needAsset.ok THEN 0
        ELSE IF acc.gotAsset < needAsset.v THEN 404
        ELSE 200

\* Lines 300-306: the UTXOs that are not locked at time t.
NotLocked(utxos, lk, t) == {u \in utxos : ~isLocked(lk, utxoKey(u), t)}

\* A selection that locks what it accumulated before the test of the sums.
Select_lockFirst(utxos, lk, t, req, order) ==
    LET acc == Accumulate(order, [selected |-> <<>>, gotLov |-> 0, gotAsset |-> 0,
                                  panic |-> FALSE], req)
        status == SelectStatus(acc, req)
    IN  [status |-> status,
         selected |-> IF status = 200 THEN acc.selected ELSE <<>>,
         locked |-> LockAll(pruneExpired(lk, t), acc.selected, t)]

\* Lines 296-353 for the request req on the list utxos that getAddressUTXOs
\* returned, at time t, the sort leaving the candidates in `order`: the
\* response and the lock table afterwards.
Select(utxos, lk, t, req, order) ==
    LET lk1 == pruneExpired(lk, t)
        acc == Accumulate(order, [selected |-> <<>>, gotLov |-> 0, gotAsset |-> 0,
                                  panic |-> FALSE], req)
        status == SelectStatus(acc, req)
    IN  [status |-> status,
         selected |-> IF status = 200 THEN acc.selected ELSE <<>>,
         locked |-> IF status = 200 THEN LockAll(lk1, acc.selected, t) ELSE lk1]

\* The orders the sort can produce for the request.
SelectOrders(utxos, lk, t, req) ==
    SortedOrders(NotLocked(utxos, pruneExpired(lk, t), t), req.algorithm)

\* The JSON bodies of the model: SelectRequest{Lovelace, Asset, MinQuantity,
\* Algorithm}; a field left out decodes as "".
SelectRequests ==
    [lovelace : {"", "0", "3", "9", "20"}, asset : {"", "TOK", "Lovelace"},
     minQuantity : {"", "2", "3"}, algorithm : {"", "Largest-First"}]

\* ------------------------------- one coin selection, from any lock table

\* Lock tables a selector can hold at time t: some of the keys, each expired,
\* expiring now or still locked.
LockTables(t) ==
    UNION {[K -> {t - 1, t, t + 1}] : K \in SUBSET {KeyOf("g0", 0), KeyOf("g1", 0)}}

\* Mempools at time t: some of the transactions, none expired.
Mempools(t) == UNION {[K -> {[ttl |-> t + 1]}] : K \in SUBSET TxIDs}

InitPick ==
    /\ now = LockTTL + 1
    /\ txs \in Mempools(now)
    /\ locked \in LockTables(now)
    /\ smu = NoProc
    /\ FreshStore
    /\ sel = NoSelection
    /\ ov = NoCall
    /\ IdleProcs

\* POST /api/address/AddrA/utxos with body req, run by one worker alone.
PickSelect(req) ==
    /\ ~sel.done
    /\ \E q \in QueryOutcomes(DOMAIN KeepUnexpired(txs, now)) :
          LET m1 == Prune(txs, now, q) IN
          \E mo \in Orders(DOMAIN m1) :
             LET utxos == Overlay(QueryFor(AddrA, req.asset),
                                  FilterFor(AddrA, req.asset), mo) IN
             \E order \in SelectOrders(utxos, locked, now, req) :
                LET r == Select(utxos, locked, now, req, order) IN
                /\ txs' = m1
                /\ locked' = r.locked
                /\ sel' = [done |-> TRUE, req |-> req, utxos |-> utxos,
                           lockedBefore |-> locked, at |-> now, order |-> order,
                           status |-> r.status, selected |-> r.selected]
    /\ UNCHANGED <<subsystems, now, mu, pc, rq, ov, smu>>

\* The request body does not decode (400), or the SQL query fails (500): the
\* handler returns before it touches the coin selector.
PickFail(status) ==
    /\ ~sel.done
    /\ sel' = [done |-> TRUE, status |-> status, selected |-> <<>>]
    /\ UNCHANGED <<subsystems, now, txs, mu, pc, rq, ov, locked, smu>>

NextPick ==
    \/ \E req \in SelectRequests : PickSelect(req)
    \/ \E status \in {400, 500} : PickFail(status)

SpecPick == InitPick /\ [][NextPick]_vars

\* The request was answered with 200 or 404.
PickAnswered == sel.done /\ sel.status \in {200, 404}

\* The UTXOs of the address, after the overlay, that were not locked when the
\* request ran.
PickCandidates ==
    {u \in sel.utxos :
        ~(utxoKey(u) \in DOMAIN sel.lockedBefore /\ sel.at < sel.lockedBefore[utxoKey(u)])}

RECURSIVE SumLovelace(_, _)
SumLovelace(o, n) == IF n = 0 THEN 0 ELSE o[n].lovelace + SumLovelace(o, n - 1)

RECURSIVE SumAsset(_, _, _)
SumAsset(o, n, asset) ==
    IF n = 0 THEN 0 ELSE AssetSum(o[n].assets, asset) + SumAsset(o, n - 1, asset)

\* The first n elements of o meet the requirements of the request.
Meets(o, n, req) ==
    /\ SumLovelace(o, n) >= SetString(req.lovelace).v
    /\ req.asset # "" => SumAsset(o, n, req.asset) >= SetString(req.minQuantity).v

SortedByLovelace(o, descending) ==
    \A i, j \in DOMAIN o :
        i < j => IF descending THEN o[i].lovelace >= o[j].lovelace
                 ELSE o[i].lovelace <= o[j].lovelace

IsListOf(o, S) == Len(o) = Cardinality(S) /\ {o[i] : i \in DOMAIN o} = S

Least(S) == CHOOSE n \in S : \A k \in S : n <= k

\* The response for the prefix lengths ns that are allowed: 404 when none of
\* them meets the requirements, otherwise 200 with the shortest that does.
PrefixResponse(ns) ==
    LET ok == {n \in ns : Meets(sel.order, n, sel.req)}
    IN  IF ok = {} THEN sel.status = 404
        ELSE sel.status = 200 /\ sel.selected = SubSeq(sel.order, 1, Least(ok))

\* C5 as stated: the candidates are the unlocked UTXOs of the address sorted
\* by lovelace, descending exactly for the algorithms largest and
\* largest-first; 200 returns the shortest prefix (of any length, the empty
\* one included) that meets the requirements, and the answer is 404 when no
\* prefix does.
SelectShortestPrefix ==
    PickAnswered =>
        /\ IsListOf(sel.order, PickCandidates)
        /\ SortedByLovelace(sel.order, sel.req.algorithm \in {"largest", "largest-first"})
        /\ PrefixResponse(0..Len(sel.order))

\* C5: the candidates are the unlocked UTXOs of the address sorted by
\* lovelace, descending when the algorithm is largest or largest-first in any
\* letter case and ascending otherwise; 200 returns the shortest non-empty
\* prefix that meets the requirements (the empty list when there is no
\* candidate), and the answer is 404 when no prefix meets them.
SelectShortestNonEmptyPrefix ==
    PickAnswered =>
        /\ IsListOf(sel.order, PickCandidates)
        /\ SortedByLovelace(sel.order,
               ToLower(sel.req.algorithm) \in {"largest", "largest-first"})
        /\ PrefixResponse(IF Len(sel.order) = 0 THEN {0} ELSE 1..Len(sel.order))

\* A descending selection of two UTXOs that had to skip a locked one.
SelectWitness ==
    /\ PickAnswered
    /\ sel.status = 200
    /\ Len(sel.selected) = 2
    /\ Descending(sel.req.algorithm)
    /\ PickCandidates # sel.utxos

\* ------------------------------------ concurrent coin-selection requests

\* The clock runs long enough for a lock to expire and be taken again.
SelectHorizon == LockTTL + MaxTime

\* The request bodies of the concurrent workers: lovelace only.
ConcurrentRequests ==
    {r \in SelectRequests :
        r.asset = "" /\ r.minQuantity = "" /\ r.lovelace \in {"3", "9"}}

\* Book-keeping for the claim: for every key, when it was last locked for a
\* response (last) and when it was locked the time before that (prev).
NoGrants == [done |-> FALSE, last |-> EmptyMap, prev |-> EmptyMap]

Granted(g, K, t, skipped) ==
    [done |-> TRUE, skipped |-> skipped,
     last |-> [k \in DOMAIN g.last \cup K |-> IF k \in K THEN t ELSE g.last[k]],
     prev |-> [k \in DOMAIN g.prev \cup (K \cap DOMAIN g.last) |->
                  IF k \in K THEN g.last[k] ELSE g.prev[k]]]

InitSelect ==
    /\ now = 0
    /\ txs = EmptyMap
    /\ ov = NoCall
    /\ FreshSelector
    /\ FreshStore
    /\ sel = NoGrants
    /\ IdleProcs

\* Handler.selectUTXOs: h.mu.Lock()
SlLock(p) ==
    /\ pc[p] = "idle"
    /\ CanLock(mu)
    /\ mu' = Lock(mu, p)
    /\ pc' = [pc EXCEPT ![p] = "decode"]
    /\ rq' = [rq EXCEPT ![p] = [kind |-> "select"]]
    /\ UNCHANGED <<subsystems, now, txs, ov, locked, smu, sel>>

\* The body fails to decode (400) or the SQL query fails (500): return.
SlFail(p, status) ==
    /\ pc[p] = "decode"
    /\ pc' = [pc EXCEPT ![p] = "return"]
    /\ rq' = [rq EXCEPT ![p] = [kind |-> "select", status |-> status]]
    /\ UNCHANGED <<subsystems, now, txs, mu, ov, locked, smu, sel>>

\* Decode the body into req, then getAddressUTXOs(addr, req.Asset).
SlFetch(p, req) ==
    /\ pc[p] = "decode"
    /\ \E q \in QueryOutcomes(DOMAIN KeepUnexpired(txs, now)) :
          LET m1 == Prune(txs, now, q) IN
          \E mo \in Orders(DOMAIN m1) :
             /\ txs' = m1
             /\ rq' = [rq EXCEPT ![p] =
                         [kind |-> "select", req |-> req,
                          utxos |-> Overlay(QueryFor(AddrA, req.asset),
                                            FilterFor(AddrA, req.asset), mo)]]
    /\ pc' = [pc EXCEPT ![p] = "selector"]
    /\ UNCHANGED <<subsystems, now, mu, ov, locked, smu, sel>>

\* h.selector.mu.Lock()
SlSelectorLock(p) ==
    /\ pc[p] = "selector"
    /\ smu = NoProc
    /\ smu' = p
    /\ pc' = [pc EXCEPT ![p] = "prune"]
    /\ UNCHANGED <<subsystems, now, txs, mu, rq, ov, locked, sel>>

\* h.selector.pruneExpired()
SlPrune(p) ==
    /\ pc[p] = "prune"
    /\ locked' = pruneExpired(locked, now)
    /\ pc' = [pc EXCEPT ![p] = "filter"]
    /\ UNCHANGED <<subsystems, now, txs, mu, rq, ov, smu, sel>>

\* Lines 300-308: drop the locked UTXOs.
SlFilter(p) ==
    /\ pc[p] = "filter"
    /\ rq' = [rq EXCEPT ![p] =
                [kind |-> "select", req |-> rq[p].req, utxos |-> rq[p].utxos,
                 filtered |-> NotLocked(rq[p].utxos, locked, now)]]
    /\ pc' = [pc EXCEPT ![p] = "pick"]
    /\ UNCHANGED <<subsystems, now, txs, mu, ov, locked, smu, sel>>

\* Lines 310-353: sort, accumulate, 404 or lock the selection and respond.
SlPick(p) ==
    /\ pc[p] = "pick"
    /\ \E order \in SortedOrders(rq[p].filtered, rq[p].req.algorithm) :
          LET acc == Accumulate(order, [selected |-> <<>>, gotLov |-> 0,
                                        gotAsset |-> 0, panic |-> FALSE], rq[p].req)
              status == SelectStatus(acc, rq[p].req)
          IN  /\ rq' = [rq EXCEPT ![p] = [kind |-> "select", status |-> status]]
              /\ IF status = 200
                 THEN /\ locked' = LockAll(locked, acc.selected, now)
                      /\ sel' = Granted(sel, Keys({acc.selected[i] : i \in DOMAIN acc.selected}),
                                        now, rq[p].utxos \ rq[p].filtered)
                 ELSE UNCHANGED <<subsystems, locked, sel>>
    /\ pc' = [pc EXCEPT ![p] = "return"]
    /\ UNCHANGED <<subsystems, now, txs, mu, ov, smu>>

\* The deferred h.selector.mu.Unlock() and h.mu.Unlock().
SlReturn(p) ==
    /\ pc[p] = "return"
    /\ smu' = IF smu = p THEN NoProc ELSE smu
    /\ mu' = Unlock(mu, p)
    /\ pc' = [pc EXCEPT ![p] = "idle"]
    /\ rq' = [rq EXCEPT ![p] = [kind |-> "none"]]
    /\ UNCHANGED <<subsystems, now, txs, ov, locked, sel>>

SlTick ==
    /\ now < SelectHorizon
    /\ now' = now + 1
    /\ UNCHANGED <<subsystems, txs, mu, pc, rq, ov, locked, smu, sel>>

NextSelect ==
    \/ \E p \in Procs : SlLock(p)
    \/ \E p \in Procs, status \in {400, 500} : SlFail(p, status)
    \/ \E p \in Procs, req \in ConcurrentRequests : SlFetch(p, req)
    \/ \E p \in Procs : SlSelectorLock(p)
    \/ \E p \in Procs : SlPrune(p)
    \/ \E p \in Procs : SlFilter(p)
    \/ \E p \in Procs : SlPick(p)
    \/ \E p \in Procs : SlReturn(p)
    \/ SlTick

SpecSelect == InitSelect /\ [][NextSelect]_vars

\* C4: a UTXO locked for the response of one selection is not locked for the
\* response of any other selection before 10 s have passed since.
SelectExclusive ==
    \A k \in DOMAIN sel.prev : sel.last[k] >= sel.prev[k] + LockTTL

\* A UTXO has been returned a second time, and the last selection succeeded
\* although it had to leave out a UTXO that another selection holds.
SelectExclusiveWitness ==
    /\ sel.done
    /\ DOMAIN sel.prev # {}
    /\ sel.skipped # {}

\* ------------------------------------------------------ Handler.submitTx

\* ttlTime := time.Now().Add(10 * time.Minute), in seconds.
MempoolTTL == 600

\* for attempt := range 3
MaxAttempts == 3

\* time.Sleep(time.Second * time.Duration((attempt+1)*5)), attempt from 0.
SleepStep == 5

SleepOf(attempt) == (attempt + 1) * SleepStep

\* cardano-cli query slot-number: slots last one second, and the chain of the
\* model started ChainAge seconds before time 0.
ChainAge == 100

ConvertTimeToSlot(t) == t + ChainAge

\* CardanoCLI.ConvertSlotToTime once GetRefTimeAndSlot returned refTime and
\* refSlot: refTime.Add(time.Duration(int64(slot) - int64(refSlot)) * time.Second).
\* The slots of the model are far below 2^63 and the differences far below
\* 2^63 nanoseconds, where the conversions and the product are exact.
ConvertSlotToTime(slot, refTime, refSlot) == refTime + (slot - refSlot)

\* tx.TTL() of the transactions a client submits: none, a slot less than ten
\* minutes ahead, a slot more than ten minutes ahead.
TxTTLs == {0, ChainAge + 40, ChainAge + 700}

\* The error text of a failed cardano-cli submit, as the set of the ledger
\* failures it names.
Messages == SUBSET {"BadInputsUTxO", "TranslationLogicMissingInput"}

\* ParseTxSubmitError: the fields the patterns fill in.  MissingInputs gets
\* the one match of FindStringSubmatch, BadInputs the TxIns of the list.
ParseTxSubmitError(msg) ==
    [NoCollateralInputs |-> "NoCollateralInputs" \in msg,
     BadInputs |-> IF "BadInputsUTxO" \in msg THEN <<In("g0", 0)>> ELSE <<>>,
     MissingInputs |->
         IF "TranslationLogicMissingInput" \in msg THEN <<In("a1", 0)>> ELSE <<>>]

\* A loop that goes on after every failure.
Retry_always(msg) == TRUE

\* Lines 1003-1005: the loop goes on unless len(parsedErr.MissingInputs) == 0.
Retry(msg) == Len(ParseTxSubmitError(msg).MissingInputs) # 0

\* The ways submitTx fails before it calls the CLI, and the status it answers.
RejectStatus(cause) ==
    CASE cause = "method" -> 405
      [] cause \in {"utf8", "json", "hex", "oversize"} -> 400
      [] OTHER -> 500

RejectCauses ==
    {"method", "read", "utf8", "json", "hex", "oversize", "decode", "sign",
     "marshal", "write"}

InitSubmit ==
    /\ now = 0
    /\ txs = EmptyMap
    /\ ov = NoCall
    /\ FreshSelector
    /\ FreshStore
    /\ sel = NoSelection
    /\ IdleProcs

\* Handler.submitTx: h.mu.Lock().  Requests arrive until MaxTime.
SbLock(p) ==
    /\ pc[p] = "idle"
    /\ now <= MaxTime
    /\ CanLock(mu)
    /\ mu' = Lock(mu, p)
    /\ pc' = [pc EXCEPT ![p] = "body"]
    /\ rq' = [rq EXCEPT ![p] = [kind |-> "submit", before |-> txs, accepted |-> FALSE]]
    /\ UNCHANGED <<subsystems, now, txs, ov, locked, smu, sel>>

\* Lines 750-835: a bad method, body, size, decode, signature or temp file.
SbReject(p, cause) ==
    /\ pc[p] = "body"
    /\ pc' = [pc EXCEPT ![p] = "return"]
    /\ rq' = [rq EXCEPT ![p] = [kind |-> "submit", before |-> rq[p].before,
                                accepted |-> FALSE, cause |-> cause,
                                status |-> RejectStatus(cause),
                                msgs |-> <<>>, sleeps |-> <<>>, tries |-> 0]]
    /\ UNCHANGED <<subsystems, now, txs, mu, ov, locked, smu, sel>>

\* Lines 750-835 passed: the transaction h with TTL slot ttl is in its file.
SbPrepare(p, h, ttl) ==
    /\ pc[p] = "body"
    /\ pc' = [pc EXCEPT ![p] = "attempt"]
    /\ rq' = [rq EXCEPT ![p] = [kind |-> "submit", before |-> rq[p].before,
                                accepted |-> FALSE, cause |-> "cli", status |-> 0,
                                tx |-> h, ttl |-> ttl, attempt |-> 0,
                                msgs |-> <<>>, sleeps |-> <<>>, tries |-> 0]]
    /\ UNCHANGED <<subsystems, now, txs, mu, ov, locked, smu, sel>>

\* submitTxWithRetries: h.cli.SubmitTx succeeds.  The node accepts no
\* transaction whose TTL slot has passed.
SbAccept(p) ==
    /\ pc[p] = "attempt"
    /\ rq[p].ttl = 0 \/ ConvertTimeToSlot(now) <= rq[p].ttl
    /\ pc' = [pc EXCEPT ![p] = "accepted"]
    /\ rq' = [rq EXCEPT ![p].tries = @ + 1, ![p].accepted = TRUE]
    /\ UNCHANGED <<subsystems, now, txs, mu, ov, locked, smu, sel>>

\* submitTxWithRetries: h.cli.SubmitTx fails with the text msg; return the
\* error (500) or go on to the sleep.
SbFailure(p, msg) ==
    /\ pc[p] = "attempt"
    /\ pc' = [pc EXCEPT ![p] = IF Retry(msg) THEN "sleep" ELSE "return"]
    /\ rq' = [rq EXCEPT ![p].tries = @ + 1, ![p].msgs = Append(@, msg),
                        ![p].status = IF Retry(msg) THEN 0 ELSE 500]
    /\ UNCHANGED <<subsystems, now, txs, mu, ov, locked, smu, sel>>

\* A sleep that also stores the transaction.
SbSleep_addTx(p) ==
    /\ pc[p] = "sleep"
    /\ now' = now + SleepOf(rq[p].attempt)
    /\ txs' = AddTx(txs, rq[p].tx, now + MempoolTTL)
    /\ pc' = [pc EXCEPT ![p] = IF rq[p].attempt + 1 < MaxAttempts THEN "attempt" ELSE "return"]
    /\ rq' = [rq EXCEPT ![p].attempt = @ + 1,
                        ![p].sleeps = Append(@, SleepOf(rq[p].attempt)),
                        ![p].status = IF rq[p].attempt + 1 < MaxAttempts THEN 0 ELSE 500]
    /\ UNCHANGED <<subsystems, mu, ov, locked, smu, sel>>

\* submitTxWithRetries: time.Sleep at the end of the loop body, then the next
\* round of the loop, or `return result, err` when the rounds are used up.
SbSleep(p) ==
    /\ pc[p] = "sleep"
    /\ now' = now + SleepOf(rq[p].attempt)
    /\ pc' = [pc EXCEPT ![p] = IF rq[p].attempt + 1 < MaxAttempts THEN "attempt" ELSE "return"]
    /\ rq' = [rq EXCEPT ![p].attempt = @ + 1,
                        ![p].sleeps = Append(@, SleepOf(rq[p].attempt)),
                        ![p].status = IF rq[p].attempt + 1 < MaxAttempts THEN 0 ELSE 500]
    /\ UNCHANGED <<subsystems, txs, mu, ov, locked, smu, sel>>

\* Line 844: ttlTime := time.Now().Add(10 * time.Minute); line 845 skips the
\* conversion when tx.TTL() is 0.
SbDeadline(p) ==
    /\ pc[p] = "accepted"
    /\ pc' = [pc EXCEPT ![p] = IF rq[p].ttl # 0 THEN "convert" ELSE "insert"]
    /\ rq' = [rq EXCEPT ![p] = [kind |-> "submit", before |-> rq[p].before,
                                accepted |-> TRUE, cause |-> "", status |-> 0,
                                tx |-> rq[p].tx, ttl |-> rq[p].ttl,
                                msgs |-> rq[p].msgs, sleeps |-> rq[p].sleeps,
                                tries |-> rq[p].tries, at |-> now,
                                ttlTime |-> now + MempoolTTL, converted |-> FALSE]]
    /\ UNCHANGED <<subsystems, now, txs, mu, ov, locked, smu, sel>>

\* A conversion whose result always replaces the default.
SbConvert_override(p, ok) ==
    /\ pc[p] = "convert"
    /\ pc' = [pc EXCEPT ![p] = "insert"]
    /\ rq' = [rq EXCEPT ![p].converted = ok,
                        ![p].ttlTime =
                            IF ok THEN ConvertSlotToTime(rq[p].ttl, now, ConvertTimeToSlot(now))
                            ELSE @]
    /\ UNCHANGED <<subsystems, now, txs, mu, ov, locked, smu, sel>>

\* Lines 846-850: h.cli.ConvertSlotToTime(ttl) at reference time now; the
\* CLI call fails (ok = FALSE) or t replaces ttlTime if t.Before(ttlTime).
SbConvert(p, ok) ==
    /\ pc[p] = "convert"
    /\ pc' = [pc EXCEPT ![p] = "insert"]
    /\ rq' = [rq EXCEPT ![p].converted = ok,
                        ![p].ttlTime =
                            LET t == ConvertSlotToTime(rq[p].ttl, now, ConvertTimeToSlot(now))
                            IN  IF ok /\ t < @ THEN t ELSE @]
    /\ UNCHANGED <<subsystems, now, txs, mu, ov, locked, smu, sel>>

\* Lines 853-867: h.mempool.AddTx(tx, ttlTime) and the 200 response.
SbInsert(p) ==
    /\ pc[p] = "insert"
    /\ txs' = AddTx(txs, rq[p].tx, rq[p].ttlTime)
    /\ pc' = [pc EXCEPT ![p] = "return"]
    /\ rq' = [rq EXCEPT ![p] = [kind |-> "submit", before |-> rq[p].before,
                                accepted |-> TRUE, cause |-> "", status |-> 200,
                                tx |-> rq[p].tx, ttl |-> rq[p].ttl,
                                msgs |-> rq[p].msgs, sleeps |-> rq[p].sleeps,
                                tries |-> rq[p].tries, at |-> rq[p].at,
                                ttlTime |-> rq[p].ttlTime,
                                converted |-> rq[p].converted, insertedAt |-> now]]
    /\ UNCHANGED <<subsystems, now, mu, ov, locked, smu, sel>>

\* The deferred h.mu.Unlock().
SbReturn(p) ==
    /\ pc[p] = "return"
    /\ mu' = Unlock(mu, p)
    /\ pc' = [pc EXCEPT ![p] = "idle"]
    /\ rq' = [rq EXCEPT ![p] = [kind |-> "none"]]
    /\ UNCHANGED <<subsystems, now, txs, ov, locked, smu, sel>>

\* Handler.mempoolTxs (and likewise the other GET handlers): h.mu.RLock().
GtRLock(p) ==
    /\ pc[p] = "idle"
    /\ now <= MaxTime
    /\ CanRLock(mu)
    /\ mu' = RLock(mu, p)
    /\ pc' = [pc EXCEPT ![p] = "reading"]
    /\ rq' = [rq EXCEPT ![p] = [kind |-> "get"]]
    /\ UNCHANGED <<subsystems, now, txs, ov, locked, smu, sel>>

\* Handler.mempoolTxs: h.mempool.prune(), Hashes(), the response and the
\* deferred h.mu.RUnlock().
GtRead(p) ==
    /\ pc[p] = "reading"
    /\ \E q \in QueryOutcomes(DOMAIN KeepUnexpired(txs, now)) :
          txs' = Prune(txs, now, q)
    /\ mu' = RUnlock(mu, p)
    /\ pc' = [pc EXCEPT ![p] = "idle"]
    /\ rq' = [rq EXCEPT ![p] = [kind |-> "none"]]
    /\ UNCHANGED <<subsystems, now, ov, locked, smu, sel>>

SbTick ==
    /\ now < MaxTime
    /\ now' = now + 1
    /\ UNCHANGED <<subsystems, txs, mu, pc, rq, ov, locked, smu, sel>>

NextSubmit ==
    \/ \E p \in Procs : SbLock(p)
    \/ \E p \in Procs, cause \in RejectCauses : SbReject(p, cause)
    \/ \E p \in Procs, h \in TxIDs, ttl \in TxTTLs : SbPrepare(p, h, ttl)
    \/ \E p \in Procs : SbAccept(p)
    \/ \E p \in Procs, msg \in Messages : SbFailure(p, msg)
    \/ \E p \in Procs : SbSleep(p)
    \/ \E p \in Procs : SbDeadline(p)
    \/ \E p \in Procs, ok \in BOOLEAN : SbConvert(p, ok)
    \/ \E p \in Procs : SbInsert(p)
    \/ \E p \in Procs : SbReturn(p)
    \/ \E p \in Procs : GtRLock(p)
    \/ \E p \in Procs : GtRead(p)
    \/ SbTick

SpecSubmit == InitSubmit /\ [][NextSubmit]_vars

\* The workers inside submitTx that have reached the CLI submit.
Submitting(p) == rq[p].kind = "submit" /\ pc[p] \notin {"idle", "body"}

\* C6: a failed CLI submit for which ParseTxSubmitError reports no missing
\* input is the last attempt of its request: the error is returned at once
\* (500), with no sleep after it and no further attempt.
SubmitRetryOnlyOnMissing ==
    \A p \in Procs :
        Submitting(p) =>
            \A i \in 1..Len(rq[p].msgs) :
                ParseTxSubmitError(rq[p].msgs[i]).MissingInputs = <<>> =>
                    /\ i = Len(rq[p].msgs)
                    /\ rq[p].tries = i
                    /\ Len(rq[p].sleeps) = i - 1
                    /\ pc[p] = "return"
                    /\ rq[p].status = 500

\* A request retried once after a missing input, then ended by a failure
\* that names BadInputsUTxO alone.
SubmitRetryWitness ==
    \E p \in Procs :
        /\ Submitting(p)
        /\ pc[p] = "return"
        /\ Len(rq[p].msgs) = 2
        /\ rq[p].msgs[1] = {"TranslationLogicMissingInput"}
        /\ rq[p].msgs[2] = {"BadInputsUTxO"}
        /\ rq[p].sleeps = <<5>>

RECURSIVE SumSeq(_)
SumSeq(q) == IF q = <<>> THEN 0 ELSE Head(q) + SumSeq(Tail(q))

\* C7: a request makes at most 3 CLI submit attempts, its only sleeps are 5 s
\* before the first retry and 10 s before the second, and it sleeps at most
\* 15 s in all.
SubmitBackoffBound ==
    \A p \in Procs :
        Submitting(p) =>
            /\ rq[p].tries <= 3
            /\ rq[p].sleeps \in {<<>>, <<5>>, <<5, 10>>}
            /\ SumSeq(rq[p].sleeps) <= 15

\* C8: the mempool differs from what it held when the request began only
\* once the request has answered 200 after a successful CLI submit, and then
\* by the submitted transaction alone; a request that ends in an error
\* leaves exactly the entries it found.
SubmitInsertsOnlyAfterSuccess ==
    \A p \in Procs :
        rq[p].kind = "submit" =>
            IF pc[p] = "return" /\ rq[p].status = 200
            THEN /\ rq[p].accepted
                 /\ DOMAIN txs = DOMAIN rq[p].before \cup {rq[p].tx}
                 /\ \A h \in DOMAIN rq[p].before \ {rq[p].tx} : txs[h] = rq[p].before[h]
            ELSE txs = rq[p].before

\* A request that fails after its retries while a transaction is already in
\* the mempool.
SubmitErrorWitness ==
    \E p \in Procs :
        /\ rq[p].kind = "submit"
        /\ pc[p] = "return"
        /\ rq[p].status = 500
        /\ rq[p].tries = 3
        /\ rq[p].before # EmptyMap

\* C9: from the CLI submit until the insertion into the mempool the worker
\* holds the global write lock, and no other worker is inside a handler that
\* takes the global lock.
SubmitAtomicInsert ==
    \A p \in Procs :
        (rq[p].kind = "submit" /\ pc[p] \in {"attempt", "sleep", "accepted", "convert", "insert"})
            => /\ mu.writer = p
               /\ mu.readers = {}
               /\ \A q \in Procs \ {p} : pc[q] = "idle"

\* The node has accepted a transaction, on a retry, and it is not yet in the
\* mempool.
SubmitAtomicWitness ==
    \E p \in Procs :
        /\ rq[p].kind = "submit"
        /\ pc[p] = "insert"
        /\ rq[p].tries = 2
        /\ rq[p].tx \notin DOMAIN txs

\* The time at which the chain reaches a slot.
SlotTime(slot) == slot - ChainAge

Earlier(a, b) == IF a < b THEN a ELSE b

\* C10: after a successful submit the stored deadline is now + 10 min when
\* tx.TTL is 0, the earlier of now + 10 min and the time of slot tx.TTL when
\* tx.TTL > 0 and the conversion succeeded, and never later than 10 minutes
\* after the insert.
SubmitDeadline ==
    \A p \in Procs :
        (rq[p].kind = "submit" /\ pc[p] = "return" /\ rq[p].status = 200) =>
            LET deadline == txs[rq[p].tx].ttl IN
            /\ rq[p].ttl = 0 => deadline = rq[p].at + 600
            /\ (rq[p].ttl > 0 /\ rq[p].converted) =>
                  deadline = Earlier(rq[p].at + 600, SlotTime(rq[p].ttl))
            /\ deadline <= rq[p].insertedAt + 600

\* A stored deadline that is the time of the TTL slot, less than ten minutes
\* ahead.
SubmitDeadlineWitness ==
    \E p \in Procs :
        /\ rq[p].kind = "submit"
        /\ pc[p] = "return"
        /\ rq[p].status = 200
        /\ rq[p].ttl > 0
        /\ rq[p].converted
        /\ txs[rq[p].tx].ttl < rq[p].at + 600

\* ------------------------------------------------- the CBOR codec (Decoded)

\* A decoded value is a record with its kind in t: DecodedInt [t, value],
\* DecodedBool [t, value], DecodedNull [t], DecodedBytes [t, type, bytes],
\* DecodedString [t, type, bytes], DecodedList [t, type, items] and
\* DecodedMap [t, type, pairs], a pair being [key, value], DecodedConstr
\* [t, tag, fields] and DecodedEnvelope [t, tag, type, inner].
DInt(n) == [t |-> "int", value |-> n]
DList(type, items) == [t |-> "list", type |-> type, items |-> items]
DMap(type, pairs) == [t |-> "map", type |-> type, pairs |-> pairs]
DPair(k, v) == [key |-> k, value |-> v]

DecodeFail == [ok |-> FALSE, v |-> [t |-> "none"], pos |-> 0]

\* The numbers of the model stay below 2^30: a larger head argument is held
\* as HeadCap.  In the inputs of the model such an argument occurs only as a
\* length that exceeds the input, where any large number has the same effect.
HeadCap == 1073741824

\* decodeIntBigEndian of the k bytes of bs that start at position pos.
TimesByte(hi, b) == IF hi >= HeadCap \div 256 THEN HeadCap ELSE hi * 256 + b

RECURSIVE decodeIntBigEndian(_, _, _)
decodeIntBigEndian(bs, pos, k) ==
    IF k = 0 THEN 0
    ELSE TimesByte(decodeIntBigEndian(bs, pos, k - 1), bs[pos + k - 1])

\* The result of a decoder is handed on as a parameter (r, h, b, ...) to the
\* operator that holds the rest of the Go function.

HeadFail == [ok |-> FALSE, m |-> 0, n |-> 0, pos |-> 0]

\* The bytes of the argument that follow a first byte with the low bits n0.
HeadWidth(n0) ==
    CASE n0 <= 23 -> 0 [] n0 = 24 -> 1 [] n0 = 25 -> 2
      [] n0 = 26 -> 4 [] n0 = 27 -> 8 [] OTHER -> -1

decodeDefHeadWide(bs, pos, m, n0, k) ==
    IF k = -1 \/ pos + k > Len(bs) THEN HeadFail
    ELSE [ok |-> TRUE, m |-> m,
          n |-> IF k = 0 THEN n0 ELSE decodeIntBigEndian(bs, pos + 1, k),
          pos |-> pos + 1 + k]

\* decodeDefHead at position pos: the major type m, the argument n and the
\* position after the head; every width of the argument is accepted.
decodeDefHead(bs, pos) ==
    IF pos > Len(bs) THEN HeadFail
    ELSE decodeDefHeadWide(bs, pos, bs[pos] \div 32, bs[pos] % 32, HeadWidth(bs[pos] % 32))

RECURSIVE decode(_, _)
RECURSIVE decodeDefItems(_, _, _, _)
RECURSIVE decodeIndefItems(_, _, _)
RECURSIVE decodeDefPairs(_, _, _, _)
RECURSIVE decodeIndefPairs(_, _, _)

\* The loop of decodeDefList: n items from position pos.
decodeDefItemsNext(bs, n, acc, r) ==
    IF ~r.ok THEN DecodeFail ELSE decodeDefItems(bs, r.pos, n - 1, Append(acc, r.v))

decodeDefItems(bs, pos, n, acc) ==
    IF n = 0 THEN [ok |-> TRUE, v |-> acc, pos |-> pos]
    ELSE decodeDefItemsNext(bs, n, acc, decode(bs, pos))

\* The loop of decodeIndefList: items until the byte 255, which is consumed.
decodeIndefItemsNext(bs, acc, r) ==
    IF ~r.ok THEN DecodeFail ELSE decodeIndefItems(bs, r.pos, Append(acc, r.v))

decodeIndefItems(bs, pos, acc) ==
    IF pos > Len(bs) THEN DecodeFail
    ELSE IF bs[pos] = 255 THEN [ok |-> TRUE, v |-> acc, pos |-> pos + 1]
    ELSE decodeIndefItemsNext(bs, acc, decode(bs, pos))

\* The loop of decodeDefMap: n keys, each followed by its value.
decodeDefPairsValue(bs, n, acc, k, v) ==
    IF ~v.ok THEN DecodeFail
    ELSE decodeDefPairs(bs, v.pos, n - 1, Append(acc, DPair(k.v, v.v)))

decodeDefPairsKey(bs, n, acc, k) ==
    IF ~k.ok THEN DecodeFail ELSE decodeDefPairsValue(bs, n, acc, k, decode(bs, k.pos))

decodeDefPairs(bs, pos, n, acc) ==
    IF n = 0 THEN [ok |-> TRUE, v |-> acc, pos |-> pos]
    ELSE decodeDefPairsKey(bs, n, acc, decode(bs, pos))

\* The loop of decodeIndefMap: pairs until the byte 255, which is consumed.
decodeIndefPairsValue(bs, acc, k, v) ==
    IF ~v.ok THEN DecodeFail
    ELSE decodeIndefPairs(bs, v.pos, Append(acc, DPair(k.v, v.v)))

decodeIndefPairsKey(bs, acc, k) ==
    IF ~k.ok THEN DecodeFail ELSE decodeIndefPairsValue(bs, acc, k, decode(bs, k.pos))

decodeIndefPairs(bs, pos, acc) ==
    IF pos > Len(bs) THEN DecodeFail
    ELSE IF bs[pos] = 255 THEN [ok |-> TRUE, v |-> acc, pos |-> pos + 1]
    ELSE decodeIndefPairsKey(bs, acc, decode(bs, pos))

\* decodeDefBytes after its head h: the h.n bytes that follow, as a value
\* of kind t ("bytes" or "string") and the given type.
BytesAfter(bs, h, t, type) ==
    IF ~h.ok \/ h.pos + h.n - 1 > Len(bs) THEN DecodeFail
    ELSE [ok |-> TRUE,
          v |-> [t |-> t, type |-> type, bytes |-> SubSeq(bs, h.pos, h.pos + h.n - 1)],
          pos |-> h.pos + h.n]

\* decodeIndefBytes: chunks until the byte 255.  The start byte 95 is not
\* consumed before the loop, which reads it as the head of the first chunk.
RECURSIVE decodeIndefBytes(_, _, _)
decodeIndefBytesChunk(bs, acc, h) ==
    IF ~h.ok \/ h.pos + h.n - 1 > Len(bs) THEN DecodeFail
    ELSE decodeIndefBytes(bs, h.pos + h.n, acc \o SubSeq(bs, h.pos, h.pos + h.n - 1))

decodeIndefBytes(bs, pos, acc) ==
    IF pos > Len(bs) THEN DecodeFail
    ELSE IF bs[pos] = 255
    THEN [ok |-> TRUE, v |-> [t |-> "bytes", type |-> "indef", bytes |-> acc],
          pos |-> pos + 1]
    ELSE decodeIndefBytesChunk(bs, acc, decodeDefHead(bs, pos))

\* decodeBytes: decodeDefBytes reads a head of any major type.
decodeBytes(bs, pos) ==
    IF pos <= Len(bs) /\ bs[pos] = 2 * 32 + 31 THEN decodeIndefBytes(bs, pos, <<>>)
    ELSE BytesAfter(bs, decodeDefHead(bs, pos), "bytes", "def")

\* A list of the given type made of the result r of an item loop.
ListOf(type, r) ==
    IF ~r.ok THEN DecodeFail ELSE [ok |-> TRUE, v |-> DList(type, r.v), pos |-> r.pos]

\* A map of the given type made of the result r of a pair loop.
MapOf(type, r) ==
    IF ~r.ok THEN DecodeFail ELSE [ok |-> TRUE, v |-> DMap(type, r.v), pos |-> r.pos]

\* decodeDefList after its head h, which must have major type 4.
decodeDefListAfter(bs, h, type) ==
    IF ~h.ok \/ h.m # 4 THEN DecodeFail
    ELSE ListOf(type, decodeDefItems(bs, h.pos, h.n, <<>>))

\* decodeList: an indefinite list, or a definite one whose head must have
\* major type 4.
decodeList(bs, pos) ==
    IF pos <= Len(bs) /\ bs[pos] = 4 * 32 + 31
    THEN ListOf("indef", decodeIndefItems(bs, pos + 1, <<>>))
    ELSE decodeDefListAfter(bs, decodeDefHead(bs, pos), "def")

\* The bignum of decodeInt: the bytes b after tag 2 or 3
\* (decodeIntBigEndian refuses no bytes).
BigOf(tag, nn) == DInt(IF tag = 2 THEN nn ELSE -nn - 1)

decodeIntBytes(tag, b) ==
    IF ~b.ok \/ b.v.bytes = <<>> THEN DecodeFail
    ELSE [ok |-> TRUE,
          v |-> BigOf(tag, decodeIntBigEndian(b.v.bytes, 1, Len(b.v.bytes))),
          pos |-> b.pos]

decodeIntAfter(bs, h) ==
    IF ~h.ok THEN DecodeFail
    ELSE IF h.m = 0 THEN [ok |-> TRUE, v |-> DInt(h.n), pos |-> h.pos]
    ELSE IF h.m = 1 THEN [ok |-> TRUE, v |-> DInt(-h.n - 1), pos |-> h.pos]
    ELSE IF h.m = 6 /\ h.n \in {2, 3} THEN decodeIntBytes(h.n, decodeBytes(bs, h.pos))
    ELSE DecodeFail

\* decodeInt: a head of major type 0 or 1, or tag 2 or 3 followed by the
\* bytes of a bignum.
decodeInt(bs, pos) == decodeIntAfter(bs, decodeDefHead(bs, pos))

\* decodeConstrTag's last two branches, for n above 120: [ok, tag].
ConstrTagShort(n) ==
    IF n <= 127 THEN [ok |-> TRUE, tag |-> n - 121] ELSE [ok |-> FALSE, tag |-> 0]

ConstrTagFail == [ok |-> FALSE, tag |-> 0, pos |-> 0]

ConstrTagAt(short, pos) == [ok |-> short.ok, tag |-> short.tag, pos |-> pos]

ConstrTagOfInt(di) ==
    IF ~di.ok THEN ConstrTagFail ELSE [ok |-> TRUE, tag |-> di.v.value, pos |-> di.pos]

ConstrTagLong(bs, l) ==
    IF ~l.ok \/ l.m # 4 \/ l.n # 2 THEN ConstrTagFail
    ELSE ConstrTagOfInt(decodeInt(bs, l.pos))

decodeConstrTagAfter(bs, h) ==
    IF ~h.ok THEN ConstrTagFail
    ELSE IF h.n < 102 THEN ConstrTagFail
    ELSE IF h.n = 102 THEN ConstrTagLong(bs, decodeDefHead(bs, h.pos))
    ELSE IF h.n < 121 THEN ConstrTagFail
    ELSE ConstrTagAt(ConstrTagShort(h.n), h.pos)

\* decodeConstrTag: [ok, tag, pos].
decodeConstrTag(bs, pos) == decodeConstrTagAfter(bs, decodeDefHead(bs, pos))

ConstrOf(c, fields) ==
    IF ~fields.ok THEN DecodeFail
    ELSE [ok |-> TRUE, v |-> [t |-> "constr", tag |-> c.tag, fields |-> fields.v],
          pos |-> fields.pos]

decodeConstrAfter(bs, c) ==
    IF ~c.ok THEN DecodeFail ELSE ConstrOf(c, decodeList(bs, c.pos))

\* decodeConstr: the tag, then the list of the fields.
decodeConstr(bs, pos) == decodeConstrAfter(bs, decodeConstrTag(bs, pos))

isConstrHead(h) ==
    h.ok /\ h.m = 6 /\ (h.n = 102 \/ (h.n >= 121 /\ h.n <= 127)
                           \/ (h.n >= 1280 /\ h.n <= 1400))

\* Stream.isConstr: a head of major type 6 with one of the constructor tags.
isConstr(bs, pos) == isConstrHead(decodeDefHead(bs, pos))

\* Stream.isSet: the three bytes of tag 258 written with a two-byte argument.
isSet(bs, pos) ==
    /\ bs[pos] = 6 * 32 + 25
    /\ pos + 2 <= Len(bs)
    /\ decodeIntBigEndian(bs, pos + 1, 2) = 258

EnvelopeOf(h, b, inner) ==
    IF ~inner.ok THEN DecodeFail
    ELSE [ok |-> TRUE,
          v |-> [t |-> "envelope", tag |-> h.n, type |-> b.v.type, inner |-> inner.v],
          pos |-> b.pos]

decodeEnvelopeBytes(h, b) ==
    IF ~b.ok \/ b.v.bytes = <<>> THEN DecodeFail
    ELSE EnvelopeOf(h, b, decode(b.v.bytes, 1))

decodeEnvelopeAfter(bs, h) ==
    IF ~h.ok \/ h.m # 6 THEN DecodeFail
    ELSE decodeEnvelopeBytes(h, decodeBytes(bs, h.pos))

\* decodeEnvelope: a tag, a byte string, and the value decoded from the
\* bytes (NewStream refuses no bytes).
decodeEnvelope(bs, pos) == decodeEnvelopeAfter(bs, decodeDefHead(bs, pos))

\* decodeMap: an indefinite map, or a definite one of h.n pairs.
decodeMapAfter(bs, pos, h) ==
    IF bs[pos] = 191 THEN MapOf("indef", decodeIndefPairs(bs, pos + 1, <<>>))
    ELSE IF ~h.ok THEN DecodeFail
    ELSE MapOf("def", decodeDefPairs(bs, h.pos, h.n, <<>>))

\* The tests of decode on the byte b at pos, its major type m and the head h.
decodeAt(bs, pos, b, m, h) ==
    IF b = 244 \/ b = 245
    THEN [ok |-> TRUE, v |-> [t |-> "bool", value |-> b = 245], pos |-> pos + 1]
    ELSE IF m = 2 THEN decodeBytes(bs, pos)
    ELSE IF isConstrHead(h) THEN decodeConstr(bs, pos)
    ELSE IF m = 0 \/ m = 1 \/ (m = 6 /\ b % 32 \in {2, 3}) THEN decodeInt(bs, pos)
    ELSE IF m = 3 THEN BytesAfter(bs, h, "string", "single")
    ELSE IF m = 4 THEN decodeList(bs, pos)
    ELSE IF m = 6 /\ isSet(bs, pos)
    THEN decodeDefListAfter(bs, decodeDefHead(bs, h.pos), "set")
    ELSE IF m = 6 THEN decodeEnvelope(bs, pos)
    ELSE IF m = 5 THEN decodeMapAfter(bs, pos, h)
    ELSE IF b = 246 THEN [ok |-> TRUE, v |-> [t |-> "null"], pos |-> pos + 1]
    ELSE DecodeFail

\* decode(s): the tests of lines 567-585 in their order (bool, bytes,
\* constr, int, string, list, set, tag, map, null), each followed by its
\* decoder.
decode(bs, pos) ==
    IF pos > Len(bs) THEN DecodeFail
    ELSE decodeAt(bs, pos, bs[pos], bs[pos] \div 32, decodeDefHead(bs, pos))

\* Decode(cbor): NewStream refuses an empty input; bytes after the first
\* value are not looked at.
Decode(bs) == IF Len(bs) = 0 THEN DecodeFail ELSE decode(bs, 1)

\* encodeDefHead(m, n): the shortest head that holds n (n below 2^31 here).
encodeDefHead(m, n) ==
    IF n <= 23 THEN <<32 * m + n>>
    ELSE IF n < 256 THEN <<32 * m + 24, n>>
    ELSE IF n < 256 * 256 THEN <<32 * m + 25, (n \div 256) % 256, n % 256>>
    ELSE <<32 * m + 26, (n \div (256 * 256 * 256)) % 256, (n \div (256 * 256)) % 256,
           (n \div 256) % 256, n % 256>>

\* encodeInt for the integers between -2^64 and 2^64.
encodeInt(x) == IF x >= 0 THEN encodeDefHead(0, x) ELSE encodeDefHead(1, -x - 1)

RECURSIVE Cbor(_)
RECURSIVE CborItems(_)
RECURSIVE CborPairs(_)

\* The concatenation of the encoded items, and of the encoded pairs.
CborItems(items) ==
    IF items = <<>> THEN <<>> ELSE Cbor(Head(items)) \o CborItems(Tail(items))

CborPairs(pairs) ==
    IF pairs = <<>> THEN <<>>
    ELSE Cbor(Head(pairs).key) \o Cbor(Head(pairs).value) \o CborPairs(Tail(pairs))

\* EncodeIndefMap: the start byte and the pairs; no end byte is appended.
EncodeIndefMap(pairs) == <<5 * 32 + 31>> \o CborPairs(pairs)

\* The bytes a chunk of encodeIndefBytes holds.
ChunkSize == 64

\* encodeIndefBytes takes bs[0:64] and bs[64:] while bytes are left, which
\* panics on a rest shorter than 64 bytes.
encodeIndefBytesPanics(bs) == Len(bs) % ChunkSize # 0

\* encodeIndefBytes: the start byte, the chunks of 64 bytes, the byte 255.
RECURSIVE encodeIndefChunks(_)
encodeIndefChunks(bs) ==
    IF Len(bs) < ChunkSize THEN <<>>
    ELSE encodeDefHead(2, ChunkSize) \o SubSeq(bs, 1, ChunkSize)
             \o encodeIndefChunks(SubSeq(bs, ChunkSize + 1, Len(bs)))

encodeIndefBytes(bs) == <<2 * 32 + 31>> \o encodeIndefChunks(bs) \o <<255>>

\* encodeConstrTag
encodeConstrTag(tag) ==
    IF tag >= 0 /\ tag <= 6 THEN encodeDefHead(6, 121 + tag)
    ELSE IF tag >= 7 /\ tag <= 127 THEN encodeDefHead(6, 1280 + tag - 7)
    ELSE encodeDefHead(6, 102) \o encodeDefHead(4, 2) \o encodeInt(tag)

\* The Cbor() methods.  DecodedString.Cbor panics (see CborPanics); it
\* stands here as no bytes.
Cbor(d) ==
    CASE d.t = "int" -> encodeInt(d.value)
      [] d.t = "bool" -> IF d.value THEN <<245>> ELSE <<244>>
      [] d.t = "null" -> <<246>>
      [] d.t = "bytes" ->
            IF d.type = "indef" THEN encodeIndefBytes(d.bytes)
            ELSE encodeDefHead(2, Len(d.bytes)) \o d.bytes
      [] d.t = "constr" -> encodeConstrTag(d.tag) \o Cbor(d.fields)
      [] d.t = "envelope" ->
            encodeDefHead(6, d.tag)
                \o (IF d.type = "indef" THEN encodeIndefBytes(Cbor(d.inner))
                    ELSE encodeDefHead(2, Len(Cbor(d.inner))) \o Cbor(d.inner))
      [] d.t = "string" -> <<>>
      [] d.t = "list" ->
            IF d.type = "indef" THEN <<4 * 32 + 31>> \o CborItems(d.items) \o <<255>>
            ELSE IF d.type = "def"
                 THEN encodeDefHead(4, Len(d.items)) \o CborItems(d.items)
            ELSE encodeDefHead(6, 258) \o encodeDefHead(4, Len(d.items))
                     \o CborItems(d.items)
      [] d.t = "map" ->
            IF d.type = "indef" THEN EncodeIndefMap(d.pairs)
            ELSE encodeDefHead(5, Len(d.pairs)) \o CborPairs(d.pairs)

\* Cbor() panics: the value holds a DecodedString ("not yet implemented"),
\* or indefinite bytes that do not fill their chunks.
RECURSIVE CborPanics(_)
CborPanics(d) ==
    CASE d.t = "string" -> TRUE
      [] d.t = "bytes" -> d.type = "indef" /\ encodeIndefBytesPanics(d.bytes)
      [] d.t = "constr" -> CborPanics(d.fields)
      [] d.t = "envelope" ->
            \/ CborPanics(d.inner)
            \/ d.type = "indef" /\ encodeIndefBytesPanics(Cbor(d.inner))
      [] d.t = "list" -> \E i \in DOMAIN d.items : CborPanics(d.items[i])
      [] d.t = "map" ->
            \E i \in DOMAIN d.pairs :
                CborPanics(d.pairs[i].key) \/ CborPanics(d.pairs[i].value)
      [] OTHER -> FALSE

\* ------------------------------------- submitTx: the body of the request

\* Bodies and transaction bytes are sequences of bytes; text is ASCII.
\* utf8.Valid on the bodies of the model: 0xff and a lone 0x82 are not UTF-8.
Utf8Valid(b) == \A i \in DOMAIN b : b[i] < 128

\* The value of a hex digit (fromHexChar), -1 for any other byte.
HexVal(c) ==
    IF c >= 48 /\ c <= 57 THEN c - 48
    ELSE IF c >= 97 /\ c <= 102 THEN c - 97 + 10
    ELSE IF c >= 65 /\ c <= 70 THEN c - 65 + 10
    ELSE -1

\* hex.DecodeString: an error for an odd length or a byte that is no hex digit.
HexDecode(b) ==
    IF Len(b) % 2 # 0 \/ \E i \in DOMAIN b : HexVal(b[i]) = -1
    THEN [ok |-> FALSE, v |-> <<>>]
    ELSE [ok |-> TRUE,
          v |-> [i \in 1..(Len(b) \div 2) |->
                    HexVal(b[2 * i - 1]) * 16 + HexVal(b[2 * i])]]

\* The text {"cborHex":" and "} around the hex of a TxEnvelope.
EnvelopeOpen == <<123, 34, 99, 98, 111, 114, 72, 101, 120, 34, 58, 34>>
EnvelopeClose == <<34, 125>>

\* json.Unmarshal(body, &structuredBody) on the bodies of the model: the
\* field cborHex of an envelope, an error for any other text.
JsonUnmarshal(b) ==
    LET n == Len(EnvelopeOpen)
        k == Len(EnvelopeClose)
    IN  IF /\ Len(b) >= n + k
           /\ SubSeq(b, 1, n) = EnvelopeOpen
           /\ SubSeq(b, Len(b) - k + 1, Len(b)) = EnvelopeClose
           /\ \A i \in (n + 1)..(Len(b) - k) : b[i] # 34
        THEN [ok |-> TRUE, CBORHex |-> SubSeq(b, n + 1, Len(b) - k)]
        ELSE [ok |-> FALSE, CBORHex |-> <<>>]

\* hex.EncodeToString
HexDigit(v) == IF v < 10 THEN 48 + v ELSE 97 + v - 10

HexEncode(bs) ==
    [i \in 1..(2 * Len(bs)) |->
        IF i % 2 = 1 THEN HexDigit(bs[(i + 1) \div 2] \div 16)
        ELSE HexDigit(bs[i \div 2] % 16)]

\* The one transaction of the request bodies: [{}, {}, true, null]; its hex.
TxRaw == <<132, 160, 160, 245, 246>>
TxHex == HexEncode(TxRaw)

Bodies ==
    {TxRaw, TxHex, <<56, 52, 65, 48, 65, 48, 70, 53, 70, 54>>, <<56, 50, 102>>,
     <<122, 122>>, <<>>, <<255>>,
     EnvelopeOpen \o TxHex \o EnvelopeClose,
     EnvelopeOpen \o <<122, 122>> \o EnvelopeClose}

ContentTypes ==
    {"application/cbor", "application/json", "text/plain", "", "text/plain; charset=utf-8",
     "application/octet-stream"}

\* The hex branch of the switch (default): 400 or the decoded bytes.
HexBody(b) ==
    IF ~Utf8Valid(b) THEN [status |-> 400, txBytes |-> <<>>]
    ELSE IF ~HexDecode(b).ok THEN [status |-> 400, txBytes |-> <<>>]
    ELSE [status |-> 0, txBytes |-> HexDecode(b).v]

\* Lines 763-804, the switch on the Content-Type header: status 400, or 0
\* and txBytes.  The case "text/plain" has no statements and Go does not
\* fall through, so txBytes stays nil.
BodyBytes(ct, body) ==
    CASE ct = "application/cbor" -> [status |-> 0, txBytes |-> body]
      [] ct = "application/json" ->
            IF ~Utf8Valid(body) THEN [status |-> 400, txBytes |-> <<>>]
            ELSE IF ~JsonUnmarshal(body).ok THEN [status |-> 400, txBytes |-> <<>>]
            ELSE HexBody(JsonUnmarshal(body).CBORHex)
      [] ct = "text/plain" -> [status |-> 0, txBytes |-> <<>>]
      [] OTHER -> HexBody(body)

\* len(txBytes) > 17000
MaxTxBytes == 17000

\* decodeTx (the ledger library) on the byte strings of the model: it
\* accepts the well-formed encodings of a list of four items whose first
\* two are maps and that are followed by nothing.
DecodeTxOk(txBytes) ==
    LET d == Decode(txBytes)
    IN  /\ d.ok
        /\ d.pos = Len(txBytes) + 1
        /\ d.v.t = "list" /\ d.v.type # "set" /\ Len(d.v.items) = 4
        /\ d.v.items[1].t = "map"
        /\ d.v.items[2].t = "map"

InitBody ==
    /\ now = 0
    /\ txs = EmptyMap
    /\ ov = NoCall
    /\ FreshSelector
    /\ FreshStore
    /\ sel = NoSelection
    /\ IdleProcs

\* Handler.submitTx: h.mu.Lock()
BdLock(p) ==
    /\ pc[p] = "idle"
    /\ CanLock(mu)
    /\ mu' = Lock(mu, p)
    /\ pc' = [pc EXCEPT ![p] = "body"]
    /\ rq' = [rq EXCEPT ![p] = [kind |-> "submit"]]
    /\ UNCHANGED <<subsystems, now, txs, ov, locked, smu, sel>>

\* Lines 755-815: read the body, interpret it, check the size, decode the
\* transaction.  Status 0 stands for going on to the signing and the submit.
BdDecode(p, ct, body) ==
    /\ pc[p] = "body"
    /\ LET r == BodyBytes(ct, body)
           status == IF r.status # 0 THEN r.status
                     ELSE IF Len(r.txBytes) > MaxTxBytes THEN 400
                     ELSE IF ~DecodeTxOk(r.txBytes) THEN 500
                     ELSE 0
       IN  rq' = [rq EXCEPT ![p] = [kind |-> "body", ct |-> ct, body |-> body,
                                    interpreted |-> r.status = 0,
                                    txBytes |-> r.txBytes, status |-> status]]
    /\ pc' = [pc EXCEPT ![p] = "decoded"]
    /\ UNCHANGED <<subsystems, now, txs, mu, ov, locked, smu, sel>>

\* The rest of the handler is SpecSubmit's; here the request ends.
BdReturn(p) ==
    /\ pc[p] = "decoded"
    /\ mu' = Unlock(mu, p)
    /\ pc' = [pc EXCEPT ![p] = "idle"]
    /\ rq' = [rq EXCEPT ![p] = [kind |-> "none"]]
    /\ UNCHANGED <<subsystems, now, txs, ov, locked, smu, sel>>

NextBody ==
    \/ \E p \in Procs : BdLock(p)
    \/ \E p \in Procs, ct \in ContentTypes, body \in Bodies : BdDecode(p, ct, body)
    \/ \E p \in Procs : BdReturn(p)

SpecBody == InitBody /\ [][NextBody]_vars

\* The transaction bytes the body stands for under its Content-Type.
MeantBytes(ct, body) ==
    IF ct = "application/cbor" THEN [ok |-> TRUE, v |-> body]
    ELSE IF ct = "application/json"
         THEN IF JsonUnmarshal(body).ok THEN HexDecode(JsonUnmarshal(body).CBORHex)
              ELSE [ok |-> FALSE, v |-> <<>>]
    ELSE HexDecode(body)

\* C11: the transaction bytes are the raw body for application/cbor, the
\* decoded hex of field cborHex for application/json, and the decoded hex of
\* the body for every other Content-Type, text/plain included.
SubmitBodyByContentType ==
    \A p \in Procs :
        (rq[p].kind = "body" /\ MeantBytes(rq[p].ct, rq[p].body).ok) =>
            /\ rq[p].interpreted
            /\ rq[p].txBytes = MeantBytes(rq[p].ct, rq[p].body).v

\* -------------------------------------------------- Handler.signCollateral

\* The witness the wallet key makes for the transaction, [vkey, signature],
\* as cbor.Encode writes it, and a witness the transaction came with.
WitnessBytes == <<130, 65, 3, 65, 4>>
OldWitness == <<130, 65, 1, 65, 2>>

\* The transactions of the model: [body, witnesses, true, auxiliary data].
TxCbor(body, wits, aux) == <<132>> \o body \o wits \o <<245>> \o aux

\* Bodies {2: 5}, the fee written in one byte and in two.
TxBodies == {<<161, 2, 5>>, <<161, 2, 24, 5>>}

\* Witness maps: empty; key 0 with a definite list, a set, an indefinite list;
\* key 5 only; key 5 then key 0; key 0 with a value that is no list; an
\* indefinite map with key 0.
TxWitnessMaps ==
    {<<160>>,
     <<161, 0, 129>> \o OldWitness,
     <<161, 0, 217, 1, 2, 129>> \o OldWitness,
     <<161, 0, 159>> \o OldWitness \o <<255>>,
     <<161, 5, 128>>,
     <<162, 5, 128, 0, 129>> \o OldWitness,
     <<161, 0, 5>>,
     <<191, 0, 129>> \o OldWitness \o <<255>>}

\* Auxiliary data: null, or the metadata {1: "h"}.
TxAuxData == {<<246>>, <<161, 1, 97, 104>>}

\* Every witness map under the one-byte fee and no auxiliary data; the
\* two-byte fee and the metadata with one witness map; a list of 3 items.
TxCbors ==
    {TxCbor(<<161, 2, 5>>, w, <<246>>) : w \in TxWitnessMaps}
        \cup {TxCbor(b, <<161, 0, 129>> \o OldWitness, a) :
                   b \in TxBodies, a \in TxAuxData}
        \cup {<<131, 161, 2, 5, 160, 246>>}

\* What signCollateral reads of a ledger.Transaction: its era, Collateral(),
\* CollateralReturn() != nil and Cbor().
Txs ==
    [era : {"alonzo", "babbage", "conway"},
     collateral : {<<>>, <<In("c1", 0)>>, <<In("c2", 0)>>, <<In("c1", 0), In("c2", 0)>>},
     collateralReturn : BOOLEAN,
     cbor : TxCbors]

\* h.config: a wallet or none, the collateral UTXO ID or "".
Configs == [wallet : BOOLEAN, collateral : {"", KeyOf("c1", 0)}]

isBabbageOrConwayTx(tx) == tx.era \in {"babbage", "conway"}

\* An input test that every input passes.
SameInput_any(tx, cfg) == TRUE

\* Lines 891-896: inputID := fmt.Sprintf("%s%d", ...) is h.config.Collateral.
SameInput(tx, cfg) ==
    KeyOf(tx.collateral[1].txID, tx.collateral[1].index) = cfg.collateral

\* Lines 932-939: the index of the first pair whose key is the integer 0,
\* 0 (for -1) when there is none.
SignaturesI(pairs) ==
    LET S == {i \in DOMAIN pairs : pairs[i].key.t = "int" /\ pairs[i].key.value = 0}
    IN  IF S = {} THEN 0 ELSE CHOOSE i \in S : \A j \in S : i <= j

\* Lines 941-961 on the decoded transaction d: the witness is spliced into
\* the witness map (items[2] here, Items[1] in Go).
Splice(d, witness) ==
    LET wm == d.items[2]
        i == SignaturesI(wm.pairs)
        pairs == IF i = 0
                 THEN Append(wm.pairs, DPair(DInt(0), DList("set", <<witness>>)))
                 ELSE [wm.pairs EXCEPT ![i].value.items = Append(@, witness)]
    IN  [d EXCEPT !.items[2].pairs = pairs]

SignNoop(tx) == [cbor |-> tx.cbor, extra |-> <<>>, err |-> FALSE, panic |-> FALSE]
SignError == [cbor |-> <<>>, extra |-> <<>>, err |-> TRUE, panic |-> FALSE]

\* Handler.signCollateral; keyOk tells whether firstEnterprisePrvKey
\* succeeded.  The result is the transaction's bytes, the extra signature
\* ("" is the empty sequence), the error, and whether Cbor() panicked.
signCollateral(cfg, tx, keyOk) ==
    IF ~cfg.wallet THEN SignNoop(tx)
    ELSE IF cfg.collateral = "" THEN SignNoop(tx)
    ELSE IF ~isBabbageOrConwayTx(tx) THEN SignNoop(tx)
    ELSE IF Len(tx.collateral) # 1 THEN SignNoop(tx)
    ELSE IF tx.collateralReturn THEN SignNoop(tx)
    ELSE IF ~SameInput(tx, cfg) THEN SignNoop(tx)
    ELSE IF ~keyOk THEN SignNoop(tx)
    ELSE LET w == Decode(WitnessBytes)
             d == Decode(tx.cbor)
         IN  IF ~w.ok \/ ~d.ok THEN SignError
             ELSE IF ~(d.v.t = "list" /\ Len(d.v.items) = 4) THEN SignNoop(tx)
             ELSE IF ~(d.v.items[2].t = "map" /\ Len(d.v.items[2].pairs) >= 1)
                  THEN SignNoop(tx)
             ELSE LET i == SignaturesI(d.v.items[2].pairs)
                  IN  IF i # 0 /\ d.v.items[2].pairs[i].value.t # "list"
                      THEN SignNoop(tx)
                      ELSE LET d2 == Splice(d.v, w.v)
                           IN  IF CborPanics(d2)
                               THEN [cbor |-> <<>>, extra |-> <<>>, err |-> FALSE,
                                     panic |-> TRUE]
                               ELSE IF ~DecodeTxOk(Cbor(d2)) THEN SignError
                               ELSE [cbor |-> Cbor(d2), extra |-> HexEncode(WitnessBytes),
                                     err |-> FALSE, panic |-> FALSE]

InitSign ==
    /\ now = 0
    /\ txs = EmptyMap
    /\ ov = NoCall
    /\ FreshSelector
    /\ FreshStore
    /\ sel = NoSelection
    /\ IdleProcs

\* Handler.submitTx: h.mu.Lock()
SgLock(p) ==
    /\ pc[p] = "idle"
    /\ CanLock(mu)
    /\ mu' = Lock(mu, p)
    /\ pc' = [pc EXCEPT ![p] = "sign"]
    /\ rq' = [rq EXCEPT ![p] = [kind |-> "submit"]]
    /\ UNCHANGED <<subsystems, now, txs, ov, locked, smu, sel>>

\* Lines 812-821 and 857-865: signCollateral on the decoded transaction tx,
\* under the configuration cfg; 500 on its error, otherwise (the submit left
\* out) the response with its extraSignatures.  Status 0 is a panic.
SgSign(p, cfg, tx, keyOk) ==
    /\ pc[p] = "sign"
    /\ LET out == signCollateral(cfg, tx, keyOk)
       IN  rq' = [rq EXCEPT ![p] =
                    [kind |-> "sign", cfg |-> cfg, tx |-> tx, keyOk |-> keyOk, out |-> out,
                     status |-> IF out.panic THEN 0 ELSE IF out.err THEN 500 ELSE 200,
                     extraSignatures |->
                         IF out.extra # <<>> THEN <<out.extra>> ELSE <<>>]]
    /\ pc' = [pc EXCEPT ![p] = "signed"]
    /\ UNCHANGED <<subsystems, now, txs, mu, ov, locked, smu, sel>>

SgReturn(p) ==
    /\ pc[p] = "signed"
    /\ mu' = Unlock(mu, p)
    /\ pc' = [pc EXCEPT ![p] = "idle"]
    /\ rq' = [rq EXCEPT ![p] = [kind |-> "none"]]
    /\ UNCHANGED <<subsystems, now, txs, ov, locked, smu, sel>>

NextSign ==
    \/ \E p \in Procs : SgLock(p)
    \/ \E p \in Procs, cfg \in Configs, tx \in Txs, keyOk \in BOOLEAN :
          SgSign(p, cfg, tx, keyOk)
    \/ \E p \in Procs : SgReturn(p)

SpecSign == InitSign /\ [][NextSign]_vars

\* The request of p, once signCollateral has answered.
Signed(p) == pc[p] = "signed" /\ rq[p].kind = "sign"

\* The six conditions of collateral co-signing.
Eligible(cfg, tx) ==
    /\ cfg.wallet
    /\ cfg.collateral # ""
    /\ tx.era \in {"babbage", "conway"}
    /\ Len(tx.collateral) = 1
    /\ ~tx.collateralReturn
    /\ tx.collateral[1].txID \o ToString(tx.collateral[1].index) = cfg.collateral

\* C12: unless a wallet and a collateral UTXO ID are configured, the
\* transaction is of the Babbage or Conway era, declares exactly one
\* collateral input, has no collateral return, and that input is the
\* configured one, signCollateral returns the transaction unchanged with no
\* extra signature and no error, and the response's extraSignatures is empty.
SignNoopUnlessEligible ==
    \A p \in Procs :
        (Signed(p) /\ ~Eligible(rq[p].cfg, rq[p].tx)) =>
            /\ rq[p].out.cbor = rq[p].tx.cbor
            /\ rq[p].out.extra = <<>>
            /\ ~rq[p].out.err /\ ~rq[p].out.panic
            /\ rq[p].extraSignatures = <<>>

\* A request that misses co-signing only by its collateral input, which is
\* another UTXO than the configured one, and came back unchanged.
SignNoopWitness ==
    \E p \in Procs :
        /\ Signed(p)
        /\ rq[p].cfg = [wallet |-> TRUE, collateral |-> KeyOf("c1", 0)]
        /\ rq[p].tx.era = "conway"
        /\ rq[p].tx.collateral = <<In("c2", 0)>>
        /\ ~rq[p].tx.collateralReturn
        /\ rq[p].keyOk
        /\ rq[p].tx.cbor = TxCbor(<<161, 2, 5>>, <<161, 0, 129>> \o OldWitness, <<246>>)
        /\ rq[p].out.cbor = rq[p].tx.cbor
        /\ rq[p].extraSignatures = <<>>

\* The witness map after the splice, by the rule: a pair {0 -> set([w])} at
\* the end when no key is 0, else w at the end of the list under key 0.
SplicedPairs(pairs, w) ==
    LET Zero == {i \in DOMAIN pairs : pairs[i].key = DInt(0)}
    IN  IF Zero = {}
        THEN pairs \o <<[key |-> DInt(0), value |-> DList("set", <<w>>)]>>
        ELSE LET i == CHOOSE z \in Zero : \A y \in Zero : z <= y
             IN  [j \in DOMAIN pairs |->
                    IF j = i
                    THEN [key |-> pairs[j].key,
                          value |-> DList(pairs[j].value.type,
                                          pairs[j].value.items \o <<w>>)]
                    ELSE pairs[j]]

\* The transactions the splice is stated for: a 4-item list whose second
\* item is a map, where the value under key 0, if any, is a list.
Spliceable(bs) ==
    LET d == Decode(bs)
    IN  /\ d.ok
        /\ d.v.t = "list" /\ Len(d.v.items) = 4
        /\ d.v.items[2].t = "map"
        /\ \A i \in DOMAIN d.v.items[2].pairs :
               d.v.items[2].pairs[i].key = DInt(0) =>
                   d.v.items[2].pairs[i].value.t = "list"

\* C13: for an eligible transaction that decodes as a 4-item list whose
\* second item is a map, of any size, the returned transaction is the input
\* with the witness spliced in (a pair {0 -> set([witness])} appended when no
\* pair has key 0, else the witness appended to the list under key 0, which
\* keeps its container mode), and the witness is the extra signature.
SignSplice ==
    \A p \in Procs :
        (/\ Signed(p)
         /\ Eligible(rq[p].cfg, rq[p].tx)
         /\ rq[p].keyOk
         /\ Spliceable(rq[p].tx.cbor)) =>
            /\ ~rq[p].out.err /\ ~rq[p].out.panic
            /\ rq[p].out.extra = HexEncode(WitnessBytes)
            /\ rq[p].extraSignatures = <<HexEncode(WitnessBytes)>>
            /\ LET d == Decode(rq[p].tx.cbor)
                   e == Decode(rq[p].out.cbor)
               IN  /\ e.ok
                   /\ e.v.t = "list" /\ Len(e.v.items) = 4
                   /\ e.v.items[2].t = "map"
                   /\ e.v.items[2].pairs =
                          SplicedPairs(d.v.items[2].pairs, Decode(WitnessBytes).v)

\* C14: for every transaction CBOR that Decode accepts, Cbor() of the
\* decoded value gives the input bytes back.
SignByteStable ==
    \A p \in Procs :
        (Signed(p) /\ Decode(rq[p].tx.cbor).ok) =>
            /\ ~CborPanics(Decode(rq[p].tx.cbor).v)
            /\ Cbor(Decode(rq[p].tx.cbor).v) = rq[p].tx.cbor

\* ------------------------------------------------- the locks of the handlers

\* One step of a handler on a mutex: Lock, Unlock, RLock, RUnlock; "sleep" is
\* the backoff of submitTxWithRetries, which touches no mutex.
Op(op, l) == [op |-> op, l |-> l]

\* Mempool.prune: the two sections under m.mu.Lock (the second is skipped
\* when there is nothing to look up).
mempoolPrune ==
    <<Op("Lock", "mmu"), Op("Unlock", "mmu"), Op("Lock", "mmu"), Op("Unlock", "mmu")>>

\* Mempool.Overlay: prune, then the merge under m.mu.RLock.
mempoolOverlay == mempoolPrune \o <<Op("RLock", "mmu"), Op("RUnlock", "mmu")>>

\* Mempool.GetTx and Mempool.Hashes.
mempoolRead == <<Op("RLock", "mmu"), Op("RUnlock", "mmu")>>

\* Mempool.GetUTXO, by the rule that the mempool owns its RW mutex.
mempoolGetUTXO == <<Op("RLock", "mmu"), Op("RUnlock", "mmu")>>

\* ImmStore.block, ImmStore.has, VolStore.block, VolStore.has on the mutex
\* l: the read lock is given up for indexBlocks when blockPtrs is nil.
storeLookup(l) ==
    <<Op("RLock", l), Op("RUnlock", l), Op("Lock", l), Op("Unlock", l),
      Op("RLock", l), Op("RUnlock", l)>>

\* Store.Block: the immutable store, then the volatile store.
storeBlock == storeLookup("imu") \o storeLookup("vmu")

addressUTXOsLocks ==
    <<Op("RLock", "mu")>> \o mempoolOverlay \o <<Op("RUnlock", "mu")>>

\* selectUTXOs with the selector's mutex taken before the global one.
selectUTXOsLocks_selectorFirst ==
    <<Op("Lock", "smu"), Op("Lock", "mu")>> \o mempoolOverlay
        \o <<Op("Unlock", "mu"), Op("Unlock", "smu")>>

selectUTXOsLocks ==
    <<Op("Lock", "mu")>> \o mempoolOverlay
        \o <<Op("Lock", "smu"), Op("Unlock", "smu"), Op("Unlock", "mu")>>

\* submitTx: the backoff of the retries, then Mempool.AddTx.
submitTxLocks ==
    <<Op("Lock", "mu"), Op("sleep", ""), Op("Lock", "mmu"), Op("Unlock", "mmu"),
      Op("Unlock", "mu")>>

txContentLocks ==
    <<Op("RLock", "mu")>> \o mempoolRead \o storeBlock \o <<Op("RUnlock", "mu")>>

\* txOutput and utxoContent.
utxoLocks == <<Op("RLock", "mu")>> \o mempoolGetUTXO \o <<Op("RUnlock", "mu")>>

mempoolTxsLocks ==
    <<Op("RLock", "mu")>> \o mempoolPrune \o mempoolRead \o <<Op("RUnlock", "mu")>>

\* parameters with the global read lock around it.
parametersLocks_global ==
    <<Op("RLock", "mu"), Op("RLock", "pmu"), Op("RUnlock", "pmu"), Op("Lock", "pmu"),
      Op("Unlock", "pmu"), Op("RUnlock", "mu")>>

\* parameters: the cache read, then the refresh under the write lock.
parametersLocks ==
    <<Op("RLock", "pmu"), Op("RUnlock", "pmu"), Op("Lock", "pmu"), Op("Unlock", "pmu")>>

\* chainTip, policyAssets, policyAssetAddresses, txBlockInfo: no mutex.
noLocks == <<>>

\* Store.NotifyTip: VolStore.has, ImmStore.sync, VolStore.sync.
NotifyTipLocks ==
    storeLookup("vmu")
        \o <<Op("Lock", "imu"), Op("Unlock", "imu"), Op("Lock", "imu"), Op("Unlock", "imu")>>
        \o <<Op("Lock", "vmu"), Op("Unlock", "vmu"), Op("Lock", "vmu"), Op("Unlock", "vmu"),
             Op("Lock", "vmu"), Op("Unlock", "vmu")>>

\* The handlers that take the global mutex for writing, for reading, not at
\* all; the background task.
WriteHandlers == {"submitTx", "selectUTXOs"}
ReadHandlers == {"addressUTXOs", "utxoContent", "txContent", "txOutput", "mempoolTxs"}
FreeHandlers ==
    {"blockBytes", "blockTx", "chainTip", "parameters", "policyAssets", "txBlockInfo"}
Handlers == WriteHandlers \cup ReadHandlers \cup FreeHandlers \cup {"NotifyTip"}

LocksOf(h) ==
    CASE h = "submitTx" -> submitTxLocks
      [] h = "selectUTXOs" -> selectUTXOsLocks
      [] h = "addressUTXOs" -> addressUTXOsLocks
      [] h \in {"utxoContent", "txOutput"} -> utxoLocks
      [] h = "txContent" -> txContentLocks
      [] h = "mempoolTxs" -> mempoolTxsLocks
      [] h \in {"blockBytes", "blockTx"} -> storeBlock
      [] h = "parameters" -> parametersLocks
      [] h = "NotifyTip" -> NotifyTipLocks
      [] OTHER -> noLocks

\* The goroutine of NewHandler is the one caller of NotifyTip.
Notifier == 1

MutexOf(l) ==
    CASE l = "mu" -> mu
      [] l = "smu" -> [writer |-> smu, readers |-> {}]
      [] l = "mmu" -> mmu
      [] l = "pmu" -> pmu
      [] l = "imu" -> imu
      [] l = "vmu" -> vmu

\* The mutex l becomes m, the others stay.
SetMutex(l, m) ==
    /\ mu' = IF l = "mu" THEN m ELSE mu
    /\ smu' = IF l = "smu" THEN m.writer ELSE smu
    /\ mmu' = IF l = "mmu" THEN m ELSE mmu
    /\ pmu' = IF l = "pmu" THEN m ELSE pmu
    /\ imu' = IF l = "imu" THEN m ELSE imu
    /\ vmu' = IF l = "vmu" THEN m ELSE vmu

\* The step worker p is about to take.
Running(p) == pc[p] = "run"
NextOp(p) == LocksOf(rq[p].handler)[rq[p].at]

\* The locals of a worker whose handler h returned: nothing, but for a free
\* handler that ran under one submit's global lock, which is noted.
Ended(h, under) ==
    IF under THEN [kind |-> "none", handler |-> h, under |-> TRUE]
    ELSE [kind |-> "none"]

\* After its step: at the next one, or back idle when it was the last.
Advance(p) ==
    IF rq[p].at < Len(LocksOf(rq[p].handler))
    THEN /\ pc' = pc
         /\ rq' = [rq EXCEPT ![p].at = @ + 1]
    ELSE /\ pc' = [pc EXCEPT ![p] = "idle"]
         /\ rq' = [rq EXCEPT ![p] = Ended(rq[p].handler, rq[p].under)]

InitLocks ==
    /\ now = 0
    /\ txs = EmptyMap
    /\ ov = NoCall
    /\ FreshSelector
    /\ FreshStore
    /\ sel = NoSelection
    /\ IdleProcs

\* ServeHTTP routes a request to the handler h (NotifyTip: the background
\* loop wakes up).  A handler without a mutex is over at once.
LkStart(p, h) ==
    /\ pc[p] = "idle"
    /\ h = "NotifyTip" => p = Notifier
    /\ LET under == /\ h \in FreeHandlers
                    /\ mu.writer # NoProc
                    /\ rq[mu.writer].handler = "submitTx"
       IN  IF LocksOf(h) = <<>>
           THEN /\ rq' = [rq EXCEPT ![p] = Ended(h, under)]
                /\ pc' = pc
           ELSE /\ rq' = [rq EXCEPT ![p] = [kind |-> "locks", handler |-> h, at |-> 1,
                                             under |-> under]]
                /\ pc' = [pc EXCEPT ![p] = "run"]
    /\ UNCHANGED <<now, txs, ov, locked, sel, mu, smu, subsystems>>

\* Lock and RLock: the worker waits until the mutex allows it.
LkAcquire(p) ==
    /\ Running(p)
    /\ NextOp(p).op \in {"Lock", "RLock"}
    /\ LET m == MutexOf(NextOp(p).l)
       IN  IF NextOp(p).op = "Lock"
           THEN CanLock(m) /\ SetMutex(NextOp(p).l, Lock(m, p))
           ELSE CanRLock(m) /\ SetMutex(NextOp(p).l, RLock(m, p))
    /\ Advance(p)
    /\ UNCHANGED <<now, txs, ov, locked, sel, store, disk, paramsCache>>

\* Unlock and RUnlock.  When the global write lock is given up, no running
\* handler is under that submit any more.
LkRelease(p) ==
    /\ Running(p)
    /\ NextOp(p).op \in {"Unlock", "RUnlock"}
    /\ LET m == MutexOf(NextOp(p).l)
       IN  IF NextOp(p).op = "Unlock"
           THEN SetMutex(NextOp(p).l, Unlock(m, p))
           ELSE SetMutex(NextOp(p).l, RUnlock(m, p))
    /\ IF NextOp(p) = Op("Unlock", "mu")
       THEN /\ pc' = [pc EXCEPT ![p] = IF rq[p].at < Len(LocksOf(rq[p].handler))
                                        THEN "run" ELSE "idle"]
            /\ rq' = [q \in Procs |->
                        IF q = p
                        THEN IF rq[p].at < Len(LocksOf(rq[p].handler))
                             THEN [rq[p] EXCEPT !.at = @ + 1]
                             ELSE Ended(rq[p].handler, FALSE)
                        ELSE IF Running(q) THEN [rq[q] EXCEPT !.under = FALSE]
                        ELSE rq[q]]
       ELSE Advance(p)
    /\ UNCHANGED <<now, txs, ov, locked, sel, store, disk, paramsCache>>

\* time.Sleep between the attempts of submitTxWithRetries.
LkSleep(p) ==
    /\ Running(p)
    /\ NextOp(p).op = "sleep"
    /\ Advance(p)
    /\ UNCHANGED <<now, txs, ov, locked, sel, mu, smu, subsystems>>

NextLocks ==
    \/ \E p \in Procs, h \in Handlers : LkStart(p, h)
    \/ \E p \in Procs : LkAcquire(p)
    \/ \E p \in Procs : LkRelease(p)
    \/ \E p \in Procs : LkSleep(p)

SpecLocks == InitLocks /\ [][NextLocks]_vars

\* What worker p holds, read off the steps it has taken: the last step on
\* the mutex l among them ("none" when there is none).
LastOn(p, l) ==
    LET S == {i \in 1..(rq[p].at - 1) : LocksOf(rq[p].handler)[i].l = l}
    IN  IF S = {} THEN "none"
        ELSE LocksOf(rq[p].handler)[CHOOSE i \in S : \A j \in S : j <= i].op

HoldsWrite(p, l) == Running(p) /\ LastOn(p, l) = "Lock"
HoldsRead(p, l) == Running(p) /\ LastOn(p, l) = "RLock"
Holds(p, l) == HoldsWrite(p, l) \/ HoldsRead(p, l)

\* Worker p is at a Lock or RLock that the mutex does not allow now.
Waits(p) ==
    /\ Running(p)
    /\ NextOp(p).op \in {"Lock", "RLock"}
    /\ \E q \in Procs :
          \/ HoldsWrite(q, NextOp(p).l)
          \/ NextOp(p).op = "Lock" /\ HoldsRead(q, NextOp(p).l)

\* C15: while a submit or coin-select request is inside the section it
\* guards with the global lock, no other submit or coin-select request and
\* no address-UTXOs, utxo, tx-content, tx-output or mempool-hashes GET is
\* inside its guarded section.
GlobalDiscipline ==
    \A p \in Procs, q \in Procs :
        (/\ p # q
         /\ Running(p) /\ rq[p].handler \in WriteHandlers /\ Holds(p, "mu")
         /\ Running(q) /\ rq[q].handler \in WriteHandlers \cup ReadHandlers) =>
            ~Holds(q, "mu")

\* A submit is inside its guarded section and a GET waits for the lock.
GlobalDisciplineWitness ==
    \E p \in Procs, q \in Procs :
        /\ Running(p) /\ rq[p].handler = "submitTx" /\ HoldsWrite(p, "mu")
        /\ Running(q) /\ rq[q].handler = "utxoContent"
        /\ NextOp(q) = Op("RLock", "mu")

\* Two GET requests are inside their guarded sections at the same time.
GlobalReadersTogether ==
    \E p \in Procs, q \in Procs :
        /\ p # q
        /\ Running(p) /\ rq[p].handler = "txContent" /\ HoldsRead(p, "mu")
        /\ Running(q) /\ rq[q].handler = "mempoolTxs" /\ HoldsRead(q, "mu")

LockNames == {"mu", "smu", "mmu", "pmu", "imu", "vmu"}

\* C16: the global lock is only asked for by a task that holds no lock, no
\* task asks for a lock it holds, and there is no set of tasks that each
\* wait for a lock held by a task of the set.
LockOrderNoDeadlock ==
    /\ \A p \in Procs :
          (Running(p) /\ NextOp(p).op \in {"Lock", "RLock"}) =>
              /\ ~Holds(p, NextOp(p).l)
              /\ NextOp(p).l = "mu" => \A l \in LockNames : ~Holds(p, l)
    /\ ~\E S \in SUBSET Procs :
          /\ S # {}
          /\ \A p \in S : Waits(p) /\ \E q \in S : Holds(q, NextOp(p).l)

\* A tx-content GET holds the global read lock and waits for the immutable
\* store, which NotifyTip has locked for its sync.
LockOrderWitness ==
    \E p \in Procs, q \in Procs :
        /\ Running(p) /\ rq[p].handler = "txContent" /\ HoldsRead(p, "mu")
        /\ Waits(p) /\ NextOp(p).l = "imu"
        /\ Running(q) /\ rq[q].handler = "NotifyTip" /\ HoldsWrite(q, "imu")

\* C17: a block, block-tx, tip, parameters, policy-assets or tx-block-info
\* request never holds or asks for the global lock, and never waits for a
\* lock that a submit or coin-select request holds.
FreeHandlersNoGlobal ==
    \A p \in Procs :
        (Running(p) /\ rq[p].handler \in FreeHandlers) =>
            /\ ~Holds(p, "mu")
            /\ NextOp(p).l # "mu"
            /\ \A q \in Procs :
                  (Running(q) /\ rq[q].handler \in WriteHandlers) =>
                      ~Holds(q, NextOp(p).l)

\* A parameters request ran from start to end while one submit held the
\* global write lock, and that submit is still in its backoff.
FreeHandlersWitness ==
    \E p \in Procs :
        /\ pc[p] = "idle"
        /\ rq[p] = Ended("parameters", TRUE)
        /\ mu.writer # NoProc
        /\ rq[mu.writer].handler = "submitTx"
        /\ NextOp(mu.writer).op = "sleep"

\* ------------------------------------------------------------- the Store

\* Block IDs (header hashes) and how many transactions each block holds.
BlockIDs == {"b0", "b1", "b2", "b3"}
Transactions(b) == IF b \in {"b0", "b2"} THEN 2 ELSE 1

\* A chunk file and a loaded chunk alike: [modTime, blocks], blocks being
\* the block IDs of the secondary index entries (ImmChunk) or of the blocks
\* (VolChunk), in file order.
Chunk(t, bs) == [modTime |-> t, blocks |-> bs]

\* ImmChunk.Tip and VolChunk.Tip
ChunkTip(c) == IF Len(c.blocks) = 0 THEN "" ELSE c.blocks[Len(c.blocks)]

\* ImmStore.Tip
ImmTip(imm) ==
    IF Len(imm.chunks) = 0 THEN "" ELSE ChunkTip(imm.chunks[Len(imm.chunks)])

\* VolStore.Tip
VolTip(vol) ==
    IF vol.latestChunk \in DOMAIN vol.chunks
    THEN ChunkTip(vol.chunks[vol.latestChunk]) ELSE ""

MaxOf(S, dflt) == IF S = {} THEN dflt ELSE CHOOSE x \in S : \A y \in S : y <= x

\* LoadImmStore, LoadVolStore, LoadStore on the directory d.
LoadImmStore(d) == [chunks |-> d.immutable, blockPtrs |-> NilPtrs]

LoadVolStore(d) ==
    [chunks |-> d.volatile, latestChunk |-> MaxOf(DOMAIN d.volatile, 0),
     blockPtrs |-> NilPtrs]

LoadStore(d) ==
    LET imm == LoadImmStore(d)
        vol == LoadVolStore(d)
    IN  [immutable |-> imm, volatile |-> vol,
         loadedTip |-> IF VolTip(vol) = "" THEN ImmTip(imm) ELSE VolTip(vol)]

\* ImmChunk.indexBlocks and VolChunk.indexBlocks: the blocks of chunk c,
\* which has the id chunkID, entered into ptrs.
indexBlocks(ptrs, c, chunkID) ==
    [b \in DOMAIN ptrs \cup {c.blocks[i] : i \in DOMAIN c.blocks} |->
        IF \E i \in DOMAIN c.blocks : c.blocks[i] = b
        THEN [I |-> chunkID,
              J |-> MaxOf({i \in DOMAIN c.blocks : c.blocks[i] = b}, 1) - 1]
        ELSE ptrs[b]]

RECURSIVE indexAll(_, _, _)
\* The chunks with the ids of the set ids entered one after the other (no
\* block of the model is in two chunks, so the order does not show).
indexAll(ptrs, chunkOf, ids) ==
    IF ids = {} THEN ptrs
    ELSE LET i == CHOOSE x \in ids : TRUE
         IN  indexAll(indexBlocks(ptrs, chunkOf[i], i), chunkOf, ids \ {i})

\* ImmStore.indexBlocks, when blockPtrs is nil (chunk id i is chunks[i + 1]).
ImmIndexed(imm) ==
    IF ~imm.blockPtrs.nil THEN imm
    ELSE [imm EXCEPT !.blockPtrs =
            [nil |-> FALSE,
             ptrs |-> indexAll(EmptyMap, [i \in 0..(Len(imm.chunks) - 1) |-> imm.chunks[i + 1]],
                               0..(Len(imm.chunks) - 1))]]

\* VolStore.indexBlocks, when blockPtrs is nil.
VolIndexed(vol) ==
    IF ~vol.blockPtrs.nil THEN vol
    ELSE [vol EXCEPT !.blockPtrs =
            [nil |-> FALSE, ptrs |-> indexAll(EmptyMap, vol.chunks, DOMAIN vol.chunks)]]

\* A sync that leaves the index as it is.
Reindexed_skip(bp, c, chunkID) == bp

\* indexBlocks of a reloaded or new chunk, done only when blockPtrs is there.
Reindexed(bp, c, chunkID) ==
    IF bp.nil THEN bp ELSE [bp EXCEPT !.ptrs = indexBlocks(@, c, chunkID)]

\* ImmStore.syncLoadedBlocks: the last chunk is read again when its file is
\* newer.  (With no chunk at all the index -1 panics; the directories of the
\* model hold one immutable chunk at least.)
ImmSyncLoadedBlocks(imm, d) ==
    LET n == Len(imm.chunks)
    IN  IF d.immutable[n].modTime > imm.chunks[n].modTime
        THEN [chunks |-> [imm.chunks EXCEPT ![n] = d.immutable[n]],
              blockPtrs |-> Reindexed(imm.blockPtrs, d.immutable[n], n - 1)]
        ELSE imm

RECURSIVE ImmSyncNewBlocks(_, _)
\* ImmStore.syncNewBlocks: the files after the last loaded chunk.
ImmSyncNewBlocks(imm, d) ==
    LET n == Len(imm.chunks)
    IN  IF n + 1 \in DOMAIN d.immutable
        THEN ImmSyncNewBlocks(
                 [chunks |-> Append(imm.chunks, d.immutable[n + 1]),
                  blockPtrs |-> Reindexed(imm.blockPtrs, d.immutable[n + 1], n)], d)
        ELSE imm

\* os.Open of the file of volatile chunk i: the error it returns, "" for
\* none.  A missing file gives a *PathError that wraps the errno, never the
\* value os.ErrNotExist itself.
OpenVolChunk(d, i) == IF i \in DOMAIN d.volatile THEN "" ELSE "PathError"

RECURSIVE VolReload(_, _, _)
\* VolStore.syncLoadedBlocks over the loaded chunks ids: a chunk is dropped
\* when the error of os.Open is os.ErrNotExist, kept on any other error, and
\* read again when its file is newer.
VolReload(vol, d, ids) ==
    IF ids = {} THEN vol
    ELSE LET i == CHOOSE x \in ids : TRUE
             err == OpenVolChunk(d, i)
             v == IF err # ""
                  THEN IF err = "ErrNotExist"
                       THEN [vol EXCEPT !.chunks = Restrict(@, DOMAIN @ \ {i})]
                       ELSE vol
                  ELSE IF d.volatile[i].modTime > vol.chunks[i].modTime
                  THEN [vol EXCEPT !.chunks[i] = d.volatile[i],
                                   !.blockPtrs = Reindexed(@, d.volatile[i], i)]
                  ELSE vol
         IN  VolReload(v, d, ids \ {i})

VolSyncLoadedBlocks(vol, d) == VolReload(vol, d, DOMAIN vol.chunks)

RECURSIVE VolSyncNewBlocks(_, _)
\* VolStore.syncNewBlocks: the files after the newest loaded chunk;
\* latestChunk is left as LoadVolStore set it.
VolSyncNewBlocks(vol, d) ==
    LET nextID == MaxOf(DOMAIN vol.chunks, -1) + 1
    IN  IF nextID \in DOMAIN d.volatile
        THEN VolSyncNewBlocks(
                 [vol EXCEPT !.chunks = [i \in DOMAIN vol.chunks \cup {nextID} |->
                                            IF i = nextID THEN d.volatile[nextID]
                                            ELSE vol.chunks[i]],
                             !.blockPtrs = Reindexed(@, d.volatile[nextID], nextID)], d)
        ELSE vol

\* VolStore.pruneOrphanedBlockPtrs
pruneOrphanedBlockPtrs(vol) ==
    IF vol.blockPtrs.nil THEN vol
    ELSE [vol EXCEPT !.blockPtrs.ptrs =
            Restrict(@, {b \in DOMAIN @ : @[b].I \in DOMAIN vol.chunks})]

\* Store.NotifyTip that syncs both stores whatever the tip.
NotifyTip_sync(s, d, tip) ==
    [immutable |-> ImmSyncNewBlocks(ImmSyncLoadedBlocks(s.immutable, d), d),
     volatile |-> pruneOrphanedBlockPtrs(
                      VolSyncNewBlocks(VolSyncLoadedBlocks(VolIndexed(s.volatile), d), d)),
     loadedTip |-> tip]

\* Store.NotifyTip
NotifyTip(s, d, tip) ==
    IF s.loadedTip = tip THEN s
    ELSE LET vol == VolIndexed(s.volatile)
         IN  IF tip \in DOMAIN vol.blockPtrs.ptrs
             THEN [s EXCEPT !.volatile = vol, !.loadedTip = tip]
             ELSE [immutable |-> ImmSyncNewBlocks(ImmSyncLoadedBlocks(s.immutable, d), d),
                   volatile |-> pruneOrphanedBlockPtrs(
                                    VolSyncNewBlocks(VolSyncLoadedBlocks(vol, d), d)),
                   loadedTip |-> tip]

\* Store.Block: [store, err, block]; block "" is nil.  fileOk tells whether
\* the .chunk file of an immutable block could be opened, read and decoded.
Block(s, blockID, fileOk) ==
    LET imm == ImmIndexed(s.immutable)
    IN  IF blockID \in DOMAIN imm.blockPtrs.ptrs
        THEN [store |-> [s EXCEPT !.immutable = imm], err |-> ~fileOk,
              block |-> IF fileOk THEN blockID ELSE ""]
        ELSE LET vol == VolIndexed(s.volatile)
                 known == blockID \in DOMAIN vol.blockPtrs.ptrs
                 ptr == vol.blockPtrs.ptrs[blockID]
             IN  [store |-> [s EXCEPT !.immutable = imm, !.volatile = vol],
                  err |-> FALSE,
                  block |-> IF /\ known
                               /\ ptr.I \in DOMAIN vol.chunks
                               /\ ptr.J < Len(vol.chunks[ptr.I].blocks)
                            THEN vol.chunks[ptr.I].blocks[ptr.J + 1] ELSE ""]

\* Store.BlockTx: [store, err, tx]; tx "" is nil.
BlockTx(s, blockID, txIndex, fileOk) ==
    LET r == Block(s, blockID, fileOk)
    IN  IF r.err THEN [store |-> r.store, err |-> TRUE, tx |-> ""]
        ELSE IF r.block = "" THEN [store |-> r.store, err |-> TRUE, tx |-> ""]
        ELSE IF txIndex >= Transactions(r.block)
             THEN [store |-> r.store, err |-> FALSE, tx |-> ""]
        ELSE IF txIndex < 0 THEN [store |-> r.store, err |-> TRUE, tx |-> ""]
        ELSE [store |-> r.store, err |-> FALSE, tx |-> r.block \o ToString(txIndex)]

\* Handler.blockBytes: the status of GET /api/block/{blockID}.
blockBytes(s, blockID, fileOk) ==
    LET r == Block(s, blockID, fileOk)
    IN  IF r.err THEN 500 ELSE IF r.block = "" THEN 404 ELSE 200

\* Handler.blockTx: the status of GET /api/block/{blockID}/tx/{txIndex}.
blockTx(s, blockID, txIndex, fileOk) ==
    IF txIndex < 0 THEN 404
    ELSE LET r == BlockTx(s, blockID, txIndex, fileOk)
         IN  IF r.err THEN 500 ELSE IF r.tx = "" THEN 404 ELSE 200

\* The database directories at start: one immutable chunk, and no volatile
\* chunk or one.
InitialDisks ==
    {[immutable |-> <<Chunk(0, <<"b0">>)>>, volatile |-> EmptyMap],
     [immutable |-> <<Chunk(0, <<"b0">>)>>, volatile |-> (0 :> Chunk(0, <<"b1">>))]}

\* The blocks in the files of d, and in the loaded chunks of the store s.
OnDisk(d) ==
    UNION {{d.immutable[i].blocks[j] : j \in DOMAIN d.immutable[i].blocks} :
               i \in DOMAIN d.immutable}
        \cup UNION {{d.volatile[i].blocks[j] : j \in DOMAIN d.volatile[i].blocks} :
                        i \in DOMAIN d.volatile}

InStore(s) == OnDisk([immutable |-> s.immutable.chunks, volatile |-> s.volatile.chunks])

\* The block the node makes next: the first one not on disk yet.
BlockOrder == <<"b0", "b1", "b2", "b3">>
NextBlock(d) ==
    BlockOrder[CHOOSE i \in DOMAIN BlockOrder :
                   /\ BlockOrder[i] \notin OnDisk(d)
                   /\ \A j \in 1..(i - 1) : BlockOrder[j] \in OnDisk(d)]

\* No chunk file differs from the chunk loaded from it, and none is new.
DiskUnchanged(s, d) ==
    /\ d.immutable = s.immutable.chunks
    /\ d.volatile = s.volatile.chunks

InitStore ==
    /\ now = 0
    /\ txs = EmptyMap
    /\ ov = NoCall
    /\ FreshSelector
    /\ sel = NoSelection
    /\ IdleProcs
    /\ mmu = Unlocked /\ pmu = Unlocked /\ imu = Unlocked /\ vmu = Unlocked
    /\ paramsCache = EmptyCache
    /\ disk \in InitialDisks
    /\ store = LoadStore(disk)

\* The node writes its next block at the end of the newest volatile chunk
\* file (fresh = FALSE) or as a new volatile chunk file (fresh = TRUE), one
\* second after the last write.
StVolWrite(fresh) ==
    /\ now < MaxTime
    /\ BlockIDs \ OnDisk(disk) # {}
    /\ fresh \/ DOMAIN disk.volatile # {}
    /\ now' = now + 1
    /\ LET i == MaxOf(DOMAIN disk.volatile, -1) + (IF fresh THEN 1 ELSE 0)
           old == IF fresh THEN <<>> ELSE disk.volatile[i].blocks
       IN  disk' = [disk EXCEPT !.volatile =
                      [j \in DOMAIN disk.volatile \cup {i} |->
                          IF j = i THEN Chunk(now + 1, Append(old, NextBlock(disk)))
                          ELSE disk.volatile[j]]]
    /\ UNCHANGED <<txs, mu, pc, rq, ov, locked, smu, sel, mmu, pmu, imu, vmu, store, paramsCache>>

\* The node writes its next block at the end of the newest immutable chunk
\* file.
StImmWrite ==
    /\ now < MaxTime
    /\ BlockIDs \ OnDisk(disk) # {}
    /\ now' = now + 1
    /\ LET n == Len(disk.immutable)
       IN  disk' = [disk EXCEPT !.immutable[n] =
                      Chunk(now + 1, Append(@.blocks, NextBlock(disk)))]
    /\ UNCHANGED <<txs, mu, pc, rq, ov, locked, smu, sel, mmu, pmu, imu, vmu, store, paramsCache>>

\* What NotifyTip has to make of a tip: the last entry of the file when the
\* newest loaded chunk file was written since it was loaded, the tip as it
\* is when no file changed at all; "" otherwise.
TipDue(advanced, last, unchanged, before) ==
    IF advanced THEN last ELSE IF unchanged THEN before ELSE ""

\* The background loop of NewHandler calls h.store.NotifyTip(tip).  The
\* worker notes what it found before the call.
StNotifyTip(tip) ==
    /\ store' = NotifyTip(store, disk, tip)
    /\ LET n == Len(store.immutable.chunks)
           i == MaxOf(DOMAIN store.volatile.chunks, -1)
           unchanged == DiskUnchanged(store, disk)
           immAdvanced == disk.immutable[n].modTime > store.immutable.chunks[n].modTime
           volAdvanced == /\ i >= 0
                          /\ disk.volatile[i].modTime > store.volatile.chunks[i].modTime
       IN  rq' = [rq EXCEPT ![Notifier] =
                    [kind |-> "notify",
                     unchanged |-> unchanged,
                     immAdvanced |-> immAdvanced,
                     volAdvanced |-> volAdvanced,
                     immDue |-> TipDue(immAdvanced, ChunkTip(disk.immutable[n]),
                                       unchanged, ImmTip(store.immutable)),
                     volDue |-> TipDue(volAdvanced,
                                       IF i >= 0 THEN ChunkTip(disk.volatile[i]) ELSE "",
                                       unchanged, VolTip(store.volatile))]]
    /\ UNCHANGED <<now, txs, mu, pc, ov, locked, smu, sel, mmu, pmu, imu, vmu, disk, paramsCache>>

\* The HTTP workers are the workers other than the background loop.  The
\* answer of a request stays in rq until the next request comes in.
Answered(p, answer) ==
    rq' = [q \in Procs |->
              IF q = p THEN answer
              ELSE IF q = Notifier THEN rq[q]
              ELSE [kind |-> "none"]]

\* GET /api/block/{blockID}
StBlock(p, blockID, fileOk) ==
    /\ p # Notifier
    /\ store' = Block(store, blockID, fileOk).store
    /\ Answered(p, [kind |-> "block", known |-> blockID \in InStore(store),
                     status |-> blockBytes(store, blockID, fileOk)])
    /\ UNCHANGED <<now, txs, mu, pc, ov, locked, smu, sel, mmu, pmu, imu, vmu, disk, paramsCache>>

\* GET /api/block/{blockID}/tx/{txIndex}
StBlockTx(p, blockID, txIndex, fileOk) ==
    /\ p # Notifier
    /\ store' = IF txIndex < 0 THEN store
                ELSE BlockTx(store, blockID, txIndex, fileOk).store
    /\ Answered(p, [kind |-> "blockTx", known |-> blockID \in InStore(store),
                     status |-> blockTx(store, blockID, txIndex, fileOk)])
    /\ UNCHANGED <<now, txs, mu, pc, ov, locked, smu, sel, mmu, pmu, imu, vmu, disk, paramsCache>>

\* The block IDs and transaction indices of the requests.
RequestIDs == {"b0", "b3"}
RequestIndices == {-1, 0, 2}

NextStore ==
    \/ \E fresh \in BOOLEAN : StVolWrite(fresh)
    \/ StImmWrite
    \/ \E tip \in BlockIDs : StNotifyTip(tip)
    \/ \E p \in Procs, blockID \in RequestIDs, fileOk \in BOOLEAN :
          StBlock(p, blockID, fileOk)
    \/ \E p \in Procs, blockID \in RequestIDs, txIndex \in RequestIndices,
          fileOk \in BOOLEAN :
          StBlockTx(p, blockID, txIndex, fileOk)

SpecStore == InitStore /\ [][NextStore]_vars

\* The last NotifyTip call, as its worker noted it.
Notified == rq[Notifier].kind = "notify"

\* With no chunk file changed since it was loaded, NotifyTip left both tips
\* as they were.
TipUnchanged ==
    (Notified /\ rq[Notifier].unchanged) =>
        /\ ImmTip(store.immutable) = rq[Notifier].immDue
        /\ VolTip(store.volatile) = rq[Notifier].volDue

\* With the newest loaded chunk file written since it was loaded, the tip
\* after NotifyTip is the last entry of that file.
TipFollows ==
    /\ (Notified /\ rq[Notifier].immAdvanced) =>
           ImmTip(store.immutable) = rq[Notifier].immDue
    /\ (Notified /\ rq[Notifier].volAdvanced) =>
           VolTip(store.volatile) = rq[Notifier].volDue

\* C18: if no chunk file changed on disk since it was loaded, NotifyTip(T)
\* leaves the immutable and the volatile Tip() unchanged for every T; if the
\* newest loaded chunk file's modTime advanced, then after the next
\* NotifyTip call Tip() is the block ID of that file's new last entry.
StoreTipStability == TipUnchanged /\ TipFollows

\* C19: a block or block-tx request whose block ID is in neither the
\* immutable nor the volatile store is answered 404.
BlockUnknownNotFound ==
    \A p \in Procs :
        (rq[p].kind \in {"block", "blockTx"} /\ ~rq[p].known) =>
            rq[p].status = 404

\* ------------------------------------------------------- GET /api/utxo/{id}

\* A UTXO as DB.UTXO returns it: the row with the ID of the transaction that
\* consumed it ("" when the column is null).
SpentUTXO(txID, outputIndex, address, lovelace, consumedBy) ==
    [txID |-> txID, outputIndex |-> outputIndex, address |-> address,
     lovelace |-> lovelace, assets |-> <<>>, consumedBy |-> consumedBy]

\* UTXO{}, which DB.UTXO returns with an error and GetUTXO with found = false.
ZeroUTXO == SpentUTXO("", 0, "", "", "")

\* DB.UTXO(txID, outputIndex, ctx): an error (no such row, or the request was
\* cancelled), or the row, unspent or consumed by another transaction.
SqlUTXOAnswers(txID, outputIndex) ==
    {[err |-> TRUE, utxo |-> ZeroUTXO]}
        \cup {[err |-> FALSE, utxo |-> SpentUTXO(txID, outputIndex, AddrA, 5, c)] :
                 c \in {""} \cup (TxIDs \ {txID})}

\* h.mempool.GetUTXO(txID, outputIndex): (utxo, found).
MempoolUTXOAnswers(txID, outputIndex) ==
    {[found |-> FALSE, utxo |-> ZeroUTXO]}
        \cup {[found |-> TRUE, utxo |-> SpentUTXO(txID, outputIndex, AddrB, 7, c)] :
                 c \in {""} \cup (TxIDs \ {txID})}

\* json.Marshal(utxo): the fields by their JSON names; assets and consumedBy
\* are omitempty (datumHash, inlineDatum and refScript are empty here).
MarshalUTXO(utxo) ==
    LET always == [k \in {"txID", "outputIndex", "address", "lovelace"} |->
                      CASE k = "txID" -> <<utxo.txID>>
                        [] k = "outputIndex" -> <<utxo.outputIndex>>
                        [] k = "address" -> <<utxo.address>>
                        [] OTHER -> <<utxo.lovelace>>]
        assets == IF utxo.assets = <<>> THEN EmptyMap ELSE ("assets" :> utxo.assets)
        spent == IF utxo.consumedBy = "" THEN EmptyMap
                 ELSE ("consumedBy" :> <<utxo.consumedBy>>)
    IN  always @@ assets @@ spent

\* EncodeUTXO(utxo): [err, cbor]; the tuple of the output ID and the output.
\* It fails on a transaction ID that is not hex or an address that does not
\* parse, as those of UTXO{}.
EncodeUTXO(utxo) ==
    IF utxo.txID = "" \/ utxo.address = ""
    THEN [err |-> TRUE, cbor |-> <<>>]
    ELSE [err |-> FALSE,
          cbor |-> <<<<utxo.txID, utxo.outputIndex>>,
                     <<utxo.address, utxo.lovelace, utxo.assets>>>>]

\* A response: the status, the headers and the body.
Response(status, headers, body) ==
    [status |-> status, headers |-> headers, body |-> body]

\* http.Error(w, text, code)
httpError(headers, text, status) ==
    Response(status, ("Content-Type" :> "text/plain") @@ headers, <<"text", text>>)

\* utxoContent with code left at http.StatusOK.
code_ok(utxo) == 200

\* code of utxoContent.
code(utxo) == IF utxo.consumedBy # "" THEN 409 ELSE 200

\* Handler.utxoContent after h.mu.RLock(): the response to the answers of
\* the mempool and, when the mempool has no such UTXO, of SQL.
utxoContent(accept, hit, row) ==
    IF ~hit.found /\ row.err
    THEN httpError(EmptyMap, "not found", 404)
    ELSE LET utxo == IF hit.found THEN hit.utxo ELSE row.utxo
             headers == IF utxo.consumedBy # "" THEN ("Consumed-By" :> utxo.consumedBy)
                        ELSE EmptyMap
         IN  IF accept # "application/cbor"
             THEN Response(code(utxo), ("Content-Type" :> "application/json") @@ headers,
                           <<"json", MarshalUTXO(utxo)>>)
             ELSE IF EncodeUTXO(utxo).err
             THEN httpError(headers, "internal error", 500)
             ELSE Response(code(utxo), ("Content-Type" :> "application/cbor") @@ headers,
                           <<"cbor", EncodeUTXO(utxo).cbor>>)

\* The Accept headers of the requests.
Accepts == {"application/cbor", "application/json", ""}

InitUtxo ==
    /\ now = 0
    /\ txs = EmptyMap
    /\ ov = NoCall
    /\ FreshSelector
    /\ FreshStore
    /\ sel = NoSelection
    /\ IdleProcs

\* Handler.utxoContent: h.mu.RLock()
UcRLock(p, txID, accept) ==
    /\ pc[p] = "idle"
    /\ CanRLock(mu)
    /\ mu' = RLock(mu, p)
    /\ pc' = [pc EXCEPT ![p] = "utxo"]
    /\ rq' = [rq EXCEPT ![p] = [kind |-> "utxo", txID |-> txID, outputIndex |-> 0,
                                accept |-> accept, answered |-> FALSE]]
    /\ UNCHANGED <<subsystems, now, txs, ov, locked, smu, sel>>

\* Handler.utxoContent: the lookups, the response and the deferred
\* h.mu.RUnlock().
UcRespond(p, hit, row) ==
    /\ pc[p] = "utxo"
    /\ mu' = RUnlock(mu, p)
    /\ pc' = [pc EXCEPT ![p] = "idle"]
    /\ rq' = [rq EXCEPT ![p] =
                [kind |-> "utxo", txID |-> rq[p].txID, outputIndex |-> rq[p].outputIndex,
                 accept |-> rq[p].accept, answered |-> TRUE,
                 found |-> hit.found, sqlErr |-> row.err, sql |-> row.utxo,
                 response |-> utxoContent(rq[p].accept, hit, row)]]
    /\ UNCHANGED <<subsystems, now, txs, ov, locked, smu, sel>>

NextUtxo ==
    \/ \E p \in Procs, txID \in TxIDs, accept \in Accepts : UcRLock(p, txID, accept)
    \/ \E p \in Procs :
          /\ pc[p] = "utxo"
          /\ \E hit \in MempoolUTXOAnswers(rq[p].txID, rq[p].outputIndex),
                row \in SqlUTXOAnswers(rq[p].txID, rq[p].outputIndex) :
                UcRespond(p, hit, row)

SpecUtxo == InitUtxo /\ [][NextUtxo]_vars

\* A request for a UTXO that was answered from SQL.
FromSql(p) ==
    /\ rq[p].kind = "utxo"
    /\ rq[p].answered
    /\ ~rq[p].found
    /\ ~rq[p].sqlErr

\* The UTXO as the body of the response, in the encoding the request accepts.
FullUTXO(p) ==
    IF rq[p].accept = "application/cbor"
    THEN <<"cbor", EncodeUTXO(rq[p].sql).cbor>>
    ELSE <<"json", MarshalUTXO(rq[p].sql)>>

\* C20: when the UTXO is not in the mempool and SQL reports a non-empty
\* consumedBy X, the response has status 409, the header Consumed-By: X and
\* the full UTXO as body; when consumedBy is empty the status is 200 and no
\* Consumed-By header is set.
UtxoConsumedConflict ==
    \A p \in Procs :
        FromSql(p) =>
            IF rq[p].sql.consumedBy # ""
            THEN /\ rq[p].response.status = 409
                 /\ "Consumed-By" \in DOMAIN rq[p].response.headers
                 /\ rq[p].response.headers["Consumed-By"] = rq[p].sql.consumedBy
                 /\ rq[p].response.body = FullUTXO(p)
            ELSE /\ rq[p].response.status = 200
                 /\ "Consumed-By" \notin DOMAIN rq[p].response.headers

\* Both cases were answered: a consumed UTXO with 409 and its header, and an
\* unspent one with 200.
UtxoConsumedWitness ==
    \E p, q \in Procs :
        /\ FromSql(p) /\ rq[p].sql.consumedBy = "a2"
        /\ rq[p].response.status = 409
        /\ rq[p].response.headers["Consumed-By"] = "a2"
        /\ FromSql(q) /\ rq[q].sql.consumedBy = ""
        /\ rq[q].response.status = 200

\* ------------------------------------------------------- GET /api/parameters

\* time.Time.Before with the bound included.
Before_orEqual(t, u) == t <= u

\* time.Time.Before
Before(t, u) == t < u

\* The JSON bytes of the parameters the node can derive, and the
\* slotsToEpochEnd its tip can report.
ParamsBytes == {"params1", "params2"}
SlotsToEpochEnd == {0, 1}

InitParams ==
    /\ now = 0
    /\ txs = EmptyMap
    /\ ov = NoCall
    /\ FreshSelector
    /\ FreshStore
    /\ sel = NoSelection
    /\ IdleProcs

\* Handler.parameters: the cache read under h.paramsCache.mu.RLock().
PmRead(p) ==
    /\ pc[p] = "idle"
    /\ CanRLock(pmu)
    /\ pc' = [pc EXCEPT ![p] = "check"]
    /\ rq' = [rq EXCEPT ![p] = [kind |-> "parameters",
                                cachedParams |-> paramsCache.params,
                                ttl |-> paramsCache.ttl]]
    /\ UNCHANGED <<subsystems, now, txs, mu, ov, locked, smu, sel>>

\* Handler.parameters: the test of the copy read from the cache; the cached
\* bytes are written when it holds.  calls counts the CLI calls made.
PmCheck(p) ==
    /\ pc[p] = "check"
    /\ IF rq[p].cachedParams # "" /\ Before(now, rq[p].ttl)
       THEN /\ pc' = [pc EXCEPT ![p] = "idle"]
            /\ rq' = [rq EXCEPT ![p] = [kind |-> "parameters", status |-> 200,
                                        body |-> rq[p].cachedParams, calls |-> 0]]
       ELSE /\ pc' = [pc EXCEPT ![p] = "lock"]
            /\ rq' = [rq EXCEPT ![p] = [kind |-> "parameters",
                                        seen |-> [params |-> rq[p].cachedParams,
                                                  ttl |-> rq[p].ttl]]]
    /\ UNCHANGED <<subsystems, now, txs, mu, ov, locked, smu, sel>>

\* Handler.parameters: h.paramsCache.mu.Lock()
PmLock(p) ==
    /\ pc[p] = "lock"
    /\ CanLock(pmu)
    /\ pmu' = Lock(pmu, p)
    /\ pc' = [pc EXCEPT ![p] = "derive"]
    /\ UNCHANGED <<now, txs, mu, rq, ov, locked, smu, sel, mmu, imu, vmu, store, disk,
                   paramsCache>>

\* Handler.parameters: h.cli.DeriveParameters(); ok = FALSE is its error,
\* answered 500 with the deferred Unlock.
PmDerive(p, ok, params) ==
    /\ pc[p] = "derive"
    /\ pmu' = IF ok THEN pmu ELSE Unlock(pmu, p)
    /\ pc' = [pc EXCEPT ![p] = IF ok THEN "tip" ELSE "idle"]
    /\ rq' = [rq EXCEPT ![p] =
                IF ok THEN [kind |-> "parameters", heliosParams |-> params,
                            seen |-> rq[p].seen]
                ELSE [kind |-> "parameters", status |-> 500, body |-> "", calls |-> 1,
                      failed |-> TRUE]]
    /\ UNCHANGED <<now, txs, mu, ov, locked, smu, sel, mmu, imu, vmu, store, disk,
                   paramsCache>>

\* A handler that stores what it derived although h.cli.Tip() failed.
PmTip_storeOnError(p, ok, slotsToEpochEnd) ==
    /\ pc[p] = "tip"
    /\ pmu' = Unlock(pmu, p)
    /\ pc' = [pc EXCEPT ![p] = "idle"]
    /\ paramsCache' = [params |-> rq[p].heliosParams, ttl |-> now + slotsToEpochEnd]
    /\ rq' = [rq EXCEPT ![p] = [kind |-> "parameters", status |-> IF ok THEN 200 ELSE 500,
                                body |-> IF ok THEN rq[p].heliosParams ELSE "",
                                calls |-> 2, slotsToEpochEnd |-> slotsToEpochEnd,
                                failed |-> ~ok]]
    /\ UNCHANGED <<now, txs, mu, ov, locked, smu, sel, mmu, imu, vmu, store, disk>>

\* Handler.parameters: h.cli.Tip(), the new ttl, the store into the cache,
\* the response and the deferred Unlock.  The worker notes in failed whether
\* a CLI call failed, and keeps in seen the cache copy it read.
PmTip(p, ok, slotsToEpochEnd) ==
    /\ pc[p] = "tip"
    /\ pmu' = Unlock(pmu, p)
    /\ pc' = [pc EXCEPT ![p] = "idle"]
    /\ IF ok
       THEN /\ paramsCache' = [params |-> rq[p].heliosParams,
                               ttl |-> now + slotsToEpochEnd]
            /\ rq' = [rq EXCEPT ![p] = [kind |-> "parameters", status |-> 200,
                                        body |-> rq[p].heliosParams, calls |-> 2,
                                        slotsToEpochEnd |-> slotsToEpochEnd,
                                        failed |-> FALSE]]
       ELSE /\ paramsCache' = paramsCache
            /\ rq' = [rq EXCEPT ![p] = [kind |-> "parameters", status |-> 500,
                                        body |-> "", calls |-> 2,
                                        slotsToEpochEnd |-> 0, failed |-> TRUE]]
    /\ UNCHANGED <<now, txs, mu, ov, locked, smu, sel, mmu, imu, vmu, store, disk>>

PmTick ==
    /\ now < MaxTime
    /\ now' = now + 1
    /\ UNCHANGED <<subsystems, txs, mu, pc, rq, ov, locked, smu, sel>>

NextParams ==
    \/ \E p \in Procs : PmRead(p)
    \/ \E p \in Procs : PmCheck(p)
    \/ \E p \in Procs : PmLock(p)
    \/ \E p \in Procs, ok \in BOOLEAN, params \in ParamsBytes : PmDerive(p, ok, params)
    \/ \E p \in Procs, ok \in BOOLEAN, slotsToEpochEnd \in SlotsToEpochEnd :
          PmTip(p, ok, slotsToEpochEnd)
    \/ PmTick

SpecParams == InitParams /\ [][NextParams]_vars

\* The worker p leaves the test of its cache copy in this step.
Checks(p) == pc[p] = "check" /\ pc'[p] # "check"

\* The worker p answers from its cache copy in this step, without a CLI call.
ServesCached(p) ==
    /\ Checks(p)
    /\ pc'[p] = "idle"
    /\ rq'[p].status = 200
    /\ rq'[p].calls = 0
    /\ rq'[p].body = rq[p].cachedParams

\* A populated copy that is not due yet is served as it is; any other copy
\* sends the handler to the refetch.
ParamsCacheHit ==
    \A p \in Procs :
        Checks(p) =>
            IF rq[p].cachedParams # "" /\ now < rq[p].ttl
            THEN ServesCached(p)
            ELSE pc'[p] = "lock"

\* A refetch that succeeds stores the new bytes with ttl = now +
\* slotsToEpochEnd, and answers with them after both CLI calls.
ParamsRefetchStores ==
    \A p \in Procs :
        (pc[p] = "tip" /\ pc'[p] = "idle" /\ rq'[p].status = 200) =>
            /\ rq'[p].calls = 2
            /\ rq'[p].body = rq[p].heliosParams
            /\ paramsCache' = [params |-> rq'[p].body,
                               ttl |-> now + rq'[p].slotsToEpochEnd]

\* Cached bytes are not served at or after their ttl.
ParamsNeverStale ==
    \A p \in Procs :
        (Checks(p) /\ pc'[p] = "idle") =>
            /\ rq[p].cachedParams # ""
            /\ now < rq[p].ttl
            /\ rq'[p].body = rq[p].cachedParams

\* C21: a GET with a populated cache and now < ttl returns the cached bytes
\* without calling the node; otherwise the handler refetches parameters and
\* tip and, on success, stores the new bytes with ttl = now + slotsToEpochEnd
\* seconds; cached bytes are never served at or after their ttl.
ParamsCacheTTL ==
    [][ParamsCacheHit /\ ParamsRefetchStores /\ ParamsNeverStale]_vars

\* One worker was answered from the cache while the cache held bytes that
\* another had fetched, and a worker refetched after the ttl had passed.
ParamsCacheWitness ==
    \E p, q \in Procs :
        /\ p # q
        /\ pc[p] = "idle" /\ rq[p].kind = "parameters"
        /\ rq[p].status = 200 /\ rq[p].calls = 0
        /\ pc[q] = "idle" /\ rq[q].kind = "parameters"
        /\ rq[q].status = 200 /\ rq[q].calls = 2
        /\ now >= paramsCache.ttl
        /\ paramsCache.params # ""

\* The worker p ends its refetch in this step, a CLI call having failed.
RefetchFails(p) ==
    /\ pc[p] \in {"derive", "tip"}
    /\ pc'[p] = "idle"
    /\ rq'[p].failed

\* The cache c sends a request that reads it at time t to the refetch.
Due(c, t) == ~(c.params # "" /\ Before(t, c.ttl))

\* A failed refetch is answered 500, leaves the cached bytes and ttl as they
\* were and releases the cache lock.
ParamsFailureFrame(p) ==
    /\ rq'[p].status = 500
    /\ paramsCache' = paramsCache
    /\ pmu' = Unlocked

\* C39 as stated: if refetching the parameters or the tip fails, the request
\* gets an internal error, the cached bytes and ttl are left exactly as they
\* were, the cache lock is released, and the next request refetches.
ParamsFailureRefetch ==
    [][\A p \in Procs :
          RefetchFails(p) => ParamsFailureFrame(p) /\ Due(paramsCache', now)]_vars

\* C39: if refetching the parameters or the tip fails, the request gets an
\* internal error, the cached bytes and ttl are left exactly as they were
\* and the cache lock is released; the next request refetches if no other
\* request has stored parameters since the failed one read the cache.
ParamsFailureKeepsCache ==
    [][\A p \in Procs :
          RefetchFails(p) =>
              /\ ParamsFailureFrame(p)
              /\ paramsCache = rq[p].seen => Due(paramsCache', now)]_vars

\* The tip query of a refetch failed while the cache held bytes past their
\* ttl, and another worker is refetching.
ParamsFailureWitness ==
    \E p, q \in Procs :
        /\ pc[p] = "idle" /\ rq[p].kind = "parameters"
        /\ rq[p].status = 500 /\ rq[p].calls = 2
        /\ paramsCache.params # "" /\ now >= paramsCache.ttl
        /\ pc[q] = "derive"

\* ------------------------------------------------------- the codec: round trip

DBool(b) == [t |-> "bool", value |-> b]
DNull == [t |-> "null"]
DBytes(type, bytes) == [t |-> "bytes", type |-> type, bytes |-> bytes]
DString(bytes) == [t |-> "string", type |-> "single", bytes |-> bytes]
DConstr(tag, fields) == [t |-> "constr", tag |-> tag, fields |-> fields]
DEnvelope(tag, type, inner) == [t |-> "envelope", tag |-> tag, type |-> type, inner |-> inner]

\* The leaves of the values of the model.
CodecAtoms ==
    {DBool(TRUE), DBool(FALSE), DNull, DString(<<97>>)}
        \cup {DInt(n) : n \in {0, 23, 24, 255, 256, 65536, -1, -24, -25, -257}}
        \cup {DBytes(type, bytes) : type \in {"def", "indef"}, bytes \in {<<>>, <<1, 2>>}}

\* The item lists and the pair lists of the containers of the model.
CodecItems == {<<>>, <<DInt(1)>>, <<DInt(1), DBytes("def", <<3>>)>>, <<DList("def", <<DNull>>)>>}
CodecPairs == {<<>>, <<DPair(DInt(0), DInt(1))>>,
               <<DPair(DInt(0), DList("set", <<DInt(2)>>)), DPair(DInt(1), DBool(TRUE))>>}

\* The constructor tags and the envelope tags of the model.
ConstrTags == {0, 6, 7, 127, 128, 1000}
EnvelopeTags == {24, 30}

\* The values of the codec AST that are encoded, decoded and encoded again.
CodecValues ==
    CodecAtoms
        \cup {DList(type, items) : type \in {"def", "indef", "set"}, items \in CodecItems}
        \cup {DMap(type, pairs) : type \in {"def", "indef"}, pairs \in CodecPairs}
        \cup {DConstr(tag, DList(type, items)) :
                 tag \in ConstrTags, type \in {"def", "indef"},
                 items \in {<<>>, <<DInt(1)>>}}
        \cup {DEnvelope(tag, type, inner) :
                 tag \in EnvelopeTags, type \in {"def", "indef"},
                 inner \in {DInt(5), DMap("def", <<>>), DList("indef", <<>>)}}

InitRoundTrip ==
    /\ now = 0
    /\ txs = EmptyMap
    /\ FreshSelector
    /\ FreshStore
    /\ sel = NoSelection
    /\ IdleProcs
    /\ ov \in {[done |-> FALSE, v |-> v] : v \in CodecValues}

\* v.Cbor(), Decode of the bytes, and Cbor() of the decoded value.  A panic
\* of Cbor() ends the call.
RtRoundTrip ==
    /\ ~ov.done
    /\ ov' = IF CborPanics(ov.v)
             THEN [done |-> TRUE, v |-> ov.v, panics |-> TRUE, cbor |-> <<>>,
                   ok |-> FALSE, decoded |-> DNull, again |-> <<>>]
             ELSE LET cbor == Cbor(ov.v)
                      r == Decode(cbor)
                  IN  [done |-> TRUE, v |-> ov.v, panics |-> FALSE, cbor |-> cbor,
                       ok |-> r.ok,
                       decoded |-> IF r.ok THEN r.v ELSE DNull,
                       again |-> IF r.ok /\ ~CborPanics(r.v) THEN Cbor(r.v) ELSE <<>>]
    /\ UNCHANGED <<subsystems, now, txs, mu, pc, rq, locked, smu, sel>>

NextRoundTrip == RtRoundTrip

SpecRoundTrip == InitRoundTrip /\ [][NextRoundTrip]_vars

\* The value came back from the round trip as it went in.
RoundTrips ==
    /\ ~ov.panics
    /\ ov.ok
    /\ ov.decoded.t = ov.v.t
    /\ ov.decoded = ov.v
    /\ ov.again = ov.cbor

\* C22: for every value v of the codec AST, Decode(v.Cbor()) is structurally
\* equal to v, and encoding the decoded value again gives the same bytes.
CborRoundTrip == ov.done => RoundTrips

\* The kinds of value that do come back as they went in: everything but
\* strings, indefinite bytes and maps, and the constructors with a tag from
\* 7 to 127, alone or inside another value.
CborRoundTripSound ==
    (ov.done /\ ~RoundTrips) =>
        \/ ov.panics
        \/ ov.v.t = "map" /\ ov.v.type = "indef"
        \/ ov.v.t = "bytes" /\ ov.v.type = "indef"
        \/ ov.v.t = "envelope" /\ ov.v.type = "indef"
        \/ ov.v.t = "constr" /\ ov.v.tag \in 7..127

\* ------------------------------------------------- the codec: big integers

\* A *big.Int is [neg, mag]: its sign and the bytes of its absolute value,
\* most significant first, without leading zeros (zero has none).
Big(neg, mag) == [neg |-> neg, mag |-> mag]

\* x.Cmp(y) < 0 on absolute values.
RECURSIVE MagLess(_, _)
MagLess(a, b) ==
    IF Len(a) # Len(b) THEN Len(a) < Len(b)
    ELSE IF a = <<>> THEN FALSE
    ELSE IF Head(a) # Head(b) THEN Head(a) < Head(b)
    ELSE MagLess(Tail(a), Tail(b))

\* The absolute value minus one, for a value above zero.
RECURSIVE MagPred(_)
MagPred(a) ==
    LET n == Len(a)
    IN  IF a[n] > 0
        THEN IF n = 1 /\ a[n] = 1 THEN <<>> ELSE [a EXCEPT ![n] = a[n] - 1]
        ELSE LET hi == MagPred(SubSeq(a, 1, n - 1))
             IN  hi \o <<255>>

\* negMinusOne(x) for x below zero: -x - 1, which is zero or above.
negMinusOne(x) == MagPred(x.mag)

\* encodeIntBigEndian(x) for x zero or above.
encodeIntBigEndian(mag) == IF mag = <<>> THEN <<0>> ELSE mag

\* The loops of encodeDefHead that put zero bytes in front up to w bytes.
RECURSIVE PadTo(_, _)
PadTo(bs, w) == IF Len(bs) < w THEN PadTo(<<0>> \o bs, w) ELSE bs

\* The numbers encodeDefHead compares with: 23, 24, 256, 256^2, 256^4, 256^8.
Mag23 == <<23>>
Mag24 == <<24>>
Mag256 == <<1, 0>>
Mag256e2 == <<1, 0, 0>>
Mag256e4 == <<1, 0, 0, 0, 0>>
Mag256e8 == <<1, 0, 0, 0, 0, 0, 0, 0, 0>>

\* encodeDefHead(m, n) on a *big.Int n zero or above: [panics, bytes].
encodeDefHeadBig(m, n) ==
    LET low == IF n = <<>> THEN 0 ELSE n[Len(n)]
    IN  IF ~MagLess(Mag23, n)
        THEN [panics |-> FALSE, bytes |-> <<32 * m + low>>]
        ELSE IF ~MagLess(n, Mag24) /\ MagLess(n, Mag256)
        THEN [panics |-> FALSE, bytes |-> <<32 * m + 24, low>>]
        ELSE IF ~MagLess(n, Mag256) /\ MagLess(n, Mag256e2)
        THEN [panics |-> FALSE, bytes |-> <<32 * m + 25, n[Len(n) - 1], low>>]
        ELSE IF ~MagLess(n, Mag256e2) /\ MagLess(n, Mag256e4)
        THEN [panics |-> FALSE, bytes |-> <<32 * m + 26>> \o PadTo(encodeIntBigEndian(n), 4)]
        ELSE IF ~MagLess(n, Mag256e4) /\ MagLess(n, Mag256e8)
        THEN [panics |-> FALSE, bytes |-> <<32 * m + 27>> \o PadTo(encodeIntBigEndian(n), 8)]
        ELSE [panics |-> TRUE, bytes |-> <<>>]

\* lim of encodeInt with 2 shifted by 62 bits only.
IntLim_63 == <<128, 0, 0, 0, 0, 0, 0, 0>>

\* lim of encodeInt: 2 shifted left by 63 bits.
IntLim == Mag256e8

\* encodeInt(x) on a *big.Int: [panics, bytes].
encodeIntBig(x) ==
    IF ~x.neg /\ MagLess(x.mag, IntLim) THEN encodeDefHeadBig(0, x.mag)
    ELSE IF ~x.neg
    THEN [panics |-> FALSE,
          bytes |-> encodeDefHead(6, 2)
                        \o encodeDefHead(2, Len(encodeIntBigEndian(x.mag)))
                        \o encodeIntBigEndian(x.mag)]
    ELSE IF ~MagLess(IntLim, x.mag) THEN encodeDefHeadBig(1, negMinusOne(x))
    ELSE [panics |-> FALSE,
          bytes |-> encodeDefHead(6, 3)
                        \o encodeDefHead(2, Len(encodeIntBigEndian(negMinusOne(x))))
                        \o encodeIntBigEndian(negMinusOne(x))]

\* The absolute values of the model: up to ten bytes, the first one low,
\* middling or high and the others all 0 or all 255; and 2^64 + 1.
MaxMagLen == 10
Fill(lead, n, f) == <<lead>> \o [i \in 1..n |-> f]
Mags ==
    {<<>>, <<1, 0, 0, 0, 0, 0, 0, 0, 1>>}
        \cup {Fill(lead, n, f) : lead \in {1, 23, 24, 128, 255}, n \in 0..(MaxMagLen - 1),
                                 f \in {0, 255}}

BigInts == {Big(neg, mag) : neg \in BOOLEAN, mag \in Mags} \ {Big(TRUE, <<>>)}

InitEncodeInt ==
    /\ now = 0
    /\ txs = EmptyMap
    /\ FreshSelector
    /\ FreshStore
    /\ sel = NoSelection
    /\ IdleProcs
    /\ ov \in {[done |-> FALSE, x |-> x] : x \in BigInts}

\* EncodeInt / EncodeLargeInt / DecodedInt.Cbor: encodeInt(x)
EiEncode ==
    /\ ~ov.done
    /\ ov' = [done |-> TRUE, x |-> ov.x, panics |-> encodeIntBig(ov.x).panics,
              cbor |-> encodeIntBig(ov.x).bytes]
    /\ UNCHANGED <<subsystems, now, txs, mu, pc, rq, locked, smu, sel>>

NextEncodeInt == EiEncode

SpecEncodeInt == InitEncodeInt /\ [][NextEncodeInt]_vars

\* Bytes without their leading zeros.
RECURSIVE Stripped(_)
Stripped(bs) == IF bs # <<>> /\ Head(bs) = 0 THEN Stripped(Tail(bs)) ELSE bs

\* The bytes e are one head of major type m whose argument is the number
\* arg, written in the smallest form that holds it: inline up to 23, then
\* in 1, 2, 4 or 8 bytes.
SmallestHead(e, m, arg) ==
    /\ e # <<>>
    /\ e[1] \div 32 = m
    /\ LET info == e[1] % 32
           w == Len(e) - 1
       IN  IF Len(arg) = 0 \/ (Len(arg) = 1 /\ arg[1] <= 23)
           THEN w = 0 /\ info = (IF arg = <<>> THEN 0 ELSE arg[1])
           ELSE /\ Stripped(Tail(e)) = arg
                /\ w = (CASE Len(arg) = 1 -> 1 [] Len(arg) = 2 -> 2
                          [] Len(arg) \in 3..4 -> 4 [] OTHER -> 8)
                /\ info = (CASE w = 1 -> 24 [] w = 2 -> 25 [] w = 4 -> 26 [] OTHER -> 27)

\* The bytes e are the tag, followed by the byte string of the number arg.
TaggedBytes(e, tag, arg) ==
    e = <<6 * 32 + tag>> \o <<2 * 32 + Len(arg)>> \o arg

\* C23: for x in [0, 2^64) encodeInt emits a major-type-0 head with argument
\* x, in the smallest head that fits; for x in [-2^64, -1] a major-type-1
\* head with argument -x-1; for x >= 2^64 tag 2 followed by the big-endian
\* bytes of x; for x < -2^64 tag 3 followed by the big-endian bytes of
\* -x-1; zero is the single byte 0.
EncodeIntHeads ==
    ov.done =>
        /\ ~ov.panics
        /\ IF ~ov.x.neg
           THEN IF Len(ov.x.mag) <= 8
                THEN SmallestHead(ov.cbor, 0, ov.x.mag)
                ELSE TaggedBytes(ov.cbor, 2, ov.x.mag)
           ELSE IF Len(ov.x.mag) <= 8 \/ ov.x.mag = <<1, 0, 0, 0, 0, 0, 0, 0, 0>>
                THEN SmallestHead(ov.cbor, 1, MagPred(ov.x.mag))
                ELSE TaggedBytes(ov.cbor, 3, MagPred(ov.x.mag))
        /\ (ov.x.mag = <<>>) => ov.cbor = <<0>>

\* The largest number below 2^64 was written in eight argument bytes.
EncodeIntWitness ==
    /\ ov.done
    /\ ov.x = Big(FALSE, <<255, 255, 255, 255, 255, 255, 255, 255>>)
    /\ ov.cbor = <<27, 255, 255, 255, 255, 255, 255, 255, 255>>

\* ------------------------------------------------- ParseTxSubmitError

\* The error text of cardano-cli as the sequence of the ledger failures it
\* names, each with the numbers and the TxIns written in it.  The patterns
\* of ParseTxSubmitError are read on this sequence: FindStringSubmatch is
\* the first failure of a kind, FindAllStringSubmatch every TxIn of a list.
InsufficientCollateral(delta, provided) ==
    [kind |-> "InsufficientCollateral", delta |-> delta, provided |-> provided]
NoCollateralInputs == [kind |-> "NoCollateralInputs"]
ValueNotConservedUTxO(supplied, expected) ==
    [kind |-> "ValueNotConservedUTxO", supplied |-> supplied, expected |-> expected]
BadInputsUTxO(txins) == [kind |-> "BadInputsUTxO", txins |-> txins]
TranslationLogicMissingInput(txin) ==
    [kind |-> "TranslationLogicMissingInput", txin |-> txin]
OtherFailure == [kind |-> "FeeTooSmallUTxO"]

\* The positions of the failures of a kind in a message.
Occurrences(msg, kind) == {i \in DOMAIN msg : msg[i].kind = kind}

\* The first failure of a kind (there is one).
FirstOf(msg, kind) ==
    msg[CHOOSE i \in Occurrences(msg, kind) : \A j \in Occurrences(msg, kind) : i <= j]

\* ParseTxSubmitError(msg): nil is <<>> for the two pointers.
ParseTxSubmitErrorOf(msg) ==
    [Raw |-> msg,
     InsufficientCollateral |->
         IF Occurrences(msg, "InsufficientCollateral") # {}
         THEN <<[Delta |-> FirstOf(msg, "InsufficientCollateral").delta,
                 Provided |-> FirstOf(msg, "InsufficientCollateral").provided]>>
         ELSE <<>>,
     NoCollateralInputs |-> Occurrences(msg, "NoCollateralInputs") # {},
     ValueMismatch |->
         IF Occurrences(msg, "ValueNotConservedUTxO") # {}
         THEN <<[Supplied |-> FirstOf(msg, "ValueNotConservedUTxO").supplied,
                 Expected |-> FirstOf(msg, "ValueNotConservedUTxO").expected]>>
         ELSE <<>>,
     BadInputs |->
         IF Occurrences(msg, "BadInputsUTxO") # {}
         THEN FirstOf(msg, "BadInputsUTxO").txins
         ELSE <<>>,
     MissingInputs |->
         IF Occurrences(msg, "TranslationLogicMissingInput") # {}
         THEN <<FirstOf(msg, "TranslationLogicMissingInput").txin>>
         ELSE <<>>]

\* The failures of the messages of the model.
Failures ==
    {InsufficientCollateral(-5, 7), NoCollateralInputs, ValueNotConservedUTxO(0, 9),
     BadInputsUTxO(<<In("a1", 1)>>),
     BadInputsUTxO(<<In("a1", 0), In("a2", 0), In("a2", 1), In("g0", 0)>>),
     TranslationLogicMissingInput(In("a1", 1)),
     TranslationLogicMissingInput(In("a2", 0)),
     OtherFailure}

\* A message names up to three failures; a failure of the UTXO rules is
\* named once, a missing input once for every script that needs it.
MaxFailures == 3
CLIMessages ==
    {msg \in UNION {[1..n -> Failures] : n \in 0..MaxFailures} :
        \A kind \in {"InsufficientCollateral", "NoCollateralInputs",
                     "ValueNotConservedUTxO", "BadInputsUTxO", "FeeTooSmallUTxO"} :
            Cardinality(Occurrences(msg, kind)) <= 1}

InitParseError ==
    /\ now = 0
    /\ txs = EmptyMap
    /\ FreshSelector
    /\ FreshStore
    /\ sel = NoSelection
    /\ IdleProcs
    /\ ov \in {[done |-> FALSE, msg |-> msg] : msg \in CLIMessages}

PeParse ==
    /\ ~ov.done
    /\ ov' = [done |-> TRUE, msg |-> ov.msg, res |-> ParseTxSubmitErrorOf(ov.msg)]
    /\ UNCHANGED <<subsystems, now, txs, mu, pc, rq, locked, smu, sel>>

NextParseError == PeParse

SpecParseError == InitParseError /\ [][NextParseError]_vars

\* The TxIns of the missing-input failures of a message, in order.
RECURSIVE MissingOf(_)
MissingOf(msg) ==
    IF msg = <<>> THEN <<>>
    ELSE (IF Head(msg).kind = "TranslationLogicMissingInput" THEN <<Head(msg).txin>>
          ELSE <<>>) \o MissingOf(Tail(msg))

\* Every field but MissingInputs holds what the message names, or nothing.
ParseErrorOtherFields ==
    ov.done =>
        /\ ov.res.Raw = ov.msg
        /\ ov.res.NoCollateralInputs = (\E i \in DOMAIN ov.msg : ov.msg[i] = NoCollateralInputs)
        /\ \A i \in DOMAIN ov.msg :
              /\ ov.msg[i].kind = "InsufficientCollateral" =>
                    ov.res.InsufficientCollateral =
                        <<[Delta |-> ov.msg[i].delta, Provided |-> ov.msg[i].provided]>>
              /\ ov.msg[i].kind = "ValueNotConservedUTxO" =>
                    ov.res.ValueMismatch =
                        <<[Supplied |-> ov.msg[i].supplied, Expected |-> ov.msg[i].expected]>>
              /\ ov.msg[i].kind = "BadInputsUTxO" => ov.res.BadInputs = ov.msg[i].txins
        /\ Occurrences(ov.msg, "InsufficientCollateral") = {} =>
              ov.res.InsufficientCollateral = <<>>
        /\ Occurrences(ov.msg, "ValueNotConservedUTxO") = {} => ov.res.ValueMismatch = <<>>
        /\ Occurrences(ov.msg, "BadInputsUTxO") = {} => ov.res.BadInputs = <<>>

\* C24: ParseTxSubmitError recovers the fields from a CLI error message:
\* InsufficientCollateral gives delta and provided, NoCollateralInputs gives
\* true, BadInputsUTxO gives every listed TxIn in order,
\* ValueNotConservedUTxO gives supplied and expected,
\* TranslationLogicMissingInput gives the list of missing inputs, the whole
\* message is kept as raw, and a pattern that does not occur leaves its
\* field empty.
ParseErrorFields ==
    /\ ParseErrorOtherFields
    /\ ov.done => ov.res.MissingInputs = MissingOf(ov.msg)

\* ------------------------------------------------- extractChunkID

\* A path is a sequence of characters.
Digits == <<"0", "1", "2", "3", "4", "5", "6", "7", "8", "9">>
IsDigit(c) == \E i \in DOMAIN Digits : Digits[i] = c
DigitValue(c) == (CHOOSE i \in DOMAIN Digits : Digits[i] = c) - 1

\* The positions of a character in a string.
IndexesOf(s, c) == {i \in DOMAIN s : s[i] = c}
Greatest(S) == CHOOSE i \in S : \A j \in S : i >= j

\* filepath.Base that leaves the path as it is.
Base_id(path) == path

\* filepath.Base(path): "." for the empty path, "/" for slashes only, else
\* the last element, trailing slashes set aside.
Base(path) ==
    IF path = <<>> THEN <<".">>
    ELSE LET ends == {i \in DOMAIN path : path[i] # "/"}
         IN  IF ends = {} THEN <<"/">>
             ELSE LET trimmed == SubSeq(path, 1, Greatest(ends))
                      slashes == IndexesOf(trimmed, "/")
                  IN  IF slashes = {} THEN trimmed
                      ELSE SubSeq(trimmed, Greatest(slashes) + 1, Len(trimmed))

\* strings.Cut(s, sep): [before, after, found], at the first sep.
Cut(s, sep) ==
    IF IndexesOf(s, sep) = {} THEN [before |-> s, after |-> <<>>, found |-> FALSE]
    ELSE LET i == Least(IndexesOf(s, sep))
         IN  [before |-> SubSeq(s, 1, i - 1), after |-> SubSeq(s, i + 1, Len(s)),
              found |-> TRUE]

\* The value of a string of digits (short enough for an int).
RECURSIVE DecimalValue(_)
DecimalValue(s) ==
    IF s = <<>> THEN 0
    ELSE DecimalValue(SubSeq(s, 1, Len(s) - 1)) * 10 + DigitValue(s[Len(s)])

\* strconv.Atoi(s): [err, value]; a sign, then one digit or more.
Atoi(s) ==
    LET signed == s # <<>> /\ s[1] \in {"+", "-"}
        digits == IF signed THEN Tail(s) ELSE s
    IN  IF digits = <<>> \/ \E i \in DOMAIN digits : ~IsDigit(digits[i])
        THEN [err |-> TRUE, value |-> 0]
        ELSE [err |-> FALSE,
              value |-> IF signed /\ s[1] = "-" THEN -DecimalValue(digits)
                        ELSE DecimalValue(digits)]

\* uint32(id) as its two 16-bit halves.
Half == 65536
Uint32(id) == [hi |-> (id \div Half) % Half, lo |-> id % Half]

\* extractChunkID(path): [err, id]
extractChunkID(path) ==
    LET idStr == Cut(Base(path), ".").before
        dash == Cut(idStr, "-")
        id == Atoi(IF dash.found THEN dash.after ELSE idStr)
    IN  [err |-> id.err, id |-> Uint32(id.value)]

\* The paths of the model: every string of up to MaxPathLen of these
\* characters, and the paths of TestExtractChunkID.
MaxPathLen == 4
PathChars == {"/", ".", "-", "+", "0", "1", "x"}
TestPaths ==
    {<<"0", "0", "0", "0", "1", ".", "s", "e", "c", "o", "n", "d", "a", "r", "y">>,
     <<"/", "v", "a", "r", "/", "d", "b", "/", "0", "0", "0", "0", "1", ".", "s", "e",
       "c", "o", "n", "d", "a", "r", "y">>,
     <<"b", "l", "o", "c", "k", "s", "-", "0", "0", "0", "2", ".", "d", "a", "t">>,
     <<"/", "f", "i", "l", "e", "s", "/", "b", "l", "o", "c", "k", "s", "-", "0", "0",
       "1", "0", ".", "o", "t", "h", "e", "r">>,
     <<"b", "a", "d">>,
     <<"b", "l", "o", "c", "k", "s", "-", "x", "y", "z", ".", "d", "a", "t">>}
Paths == TestPaths \cup UNION {[1..n -> PathChars] : n \in 0..MaxPathLen}

InitChunkID ==
    /\ now = 0
    /\ txs = EmptyMap
    /\ FreshSelector
    /\ FreshStore
    /\ sel = NoSelection
    /\ IdleProcs
    /\ ov \in {[done |-> FALSE, path |-> path] : path \in Paths}

CkExtract ==
    /\ ~ov.done
    /\ ov' = [done |-> TRUE, path |-> ov.path, res |-> extractChunkID(ov.path)]
    /\ UNCHANGED <<subsystems, now, txs, mu, pc, rq, locked, smu, sel>>

NextChunkID == CkExtract

SpecChunkID == InitChunkID /\ [][NextChunkID]_vars

\* The file name of a path that names a file: what follows its last slash.
FileName(path) ==
    IF IndexesOf(path, "/") = {} THEN path
    ELSE SubSeq(path, Greatest(IndexesOf(path, "/")) + 1, Len(path))

\* The part of a file name that holds the number: the name up to its first
\* dot, and of that what follows the first dash if there is one.
NumericPart(name) ==
    LET stem == IF IndexesOf(name, ".") = {} THEN name
                ELSE SubSeq(name, 1, Least(IndexesOf(name, ".")) - 1)
    IN  IF IndexesOf(stem, "-") = {} THEN stem
        ELSE SubSeq(stem, Least(IndexesOf(stem, "-")) + 1, Len(stem))

\* A decimal number: digits, with or without a sign in front.
IsDecimal(s) ==
    \/ s # <<>> /\ \A i \in DOMAIN s : IsDigit(s[i])
    \/ Len(s) > 1 /\ s[1] \in {"+", "-"} /\ \A i \in 2..Len(s) : IsDigit(s[i])

\* The chunk ID of the test table for one of its paths.
ChunkIDOf(path, id) ==
    ov.path = path => (~ov.res.err /\ ov.res.id = [hi |-> 0, lo |-> id])

\* C25: extractChunkID takes the file name without directory and extension,
\* keeps the part after '-' if there is one, and parses it as a decimal
\* number: 00001.secondary and /var/db/00001.secondary give 1,
\* blocks-0002.dat gives 2, /files/blocks-0010.other gives 10; a name whose
\* numeric part does not parse (bad, blocks-xyz.dat) gives an error.
ChunkIDParsed ==
    (ov.done /\ ov.path # <<>> /\ ov.path[Len(ov.path)] # "/") =>
        LET part == NumericPart(FileName(ov.path))
        IN  /\ ov.res.err = ~IsDecimal(part)
            /\ (IsDecimal(part) /\ IsDigit(part[1])) =>
                  ov.res.id = [hi |-> 0, lo |-> DecimalValue(part)]
            /\ ChunkIDOf(<<"0", "0", "0", "0", "1", ".", "s", "e", "c", "o", "n", "d",
                           "a", "r", "y">>, 1)
            /\ ChunkIDOf(<<"b", "l", "o", "c", "k", "s", "-", "0", "0", "0", "2", ".",
                           "d", "a", "t">>, 2)
            /\ ChunkIDOf(<<"/", "f", "i", "l", "e", "s", "/", "b", "l", "o", "c", "k",
                           "s", "-", "0", "0", "1", "0", ".", "o", "t", "h", "e", "r">>, 10)
            /\ ov.path \in {<<"b", "a", "d">>,
                            <<"b", "l", "o", "c", "k", "s", "-", "x", "y", "z", ".", "d",
                              "a", "t">>} => ov.res.err

\* The path /var/db/00001.secondary gave the chunk ID 1.
ChunkIDWitness ==
    /\ ov.done
    /\ ov.path = <<"/", "v", "a", "r", "/", "d", "b", "/", "0", "0", "0", "0", "1", ".",
                   "s", "e", "c", "o", "n", "d", "a", "r", "y">>
    /\ ~ov.res.err
    /\ ov.res.id = [hi |-> 0, lo |-> 1]

\* ------------------------------------- Store: rewritten and deleted chunks

\* The node rolls back the last block of volatile chunk file i and writes
\* its next block in its place.
SyVolRewrite(i) ==
    /\ now < MaxTime
    /\ i \in DOMAIN disk.volatile
    /\ disk.volatile[i].blocks # <<>>
    /\ BlockIDs \ OnDisk(disk) # {}
    /\ now' = now + 1
    /\ LET old == disk.volatile[i].blocks
       IN  disk' = [disk EXCEPT !.volatile[i] =
                      Chunk(now + 1, Append(SubSeq(old, 1, Len(old) - 1), NextBlock(disk)))]
    /\ UNCHANGED <<txs, mu, pc, rq, ov, locked, smu, sel, mmu, pmu, imu, vmu, store, paramsCache>>

\* The node deletes volatile chunk file i.
SyVolDelete(i) ==
    /\ i \in DOMAIN disk.volatile
    /\ disk' = [disk EXCEPT !.volatile = Restrict(@, DOMAIN @ \ {i})]
    /\ UNCHANGED <<now, txs, mu, pc, rq, ov, locked, smu, sel, mmu, pmu, imu, vmu, store, paramsCache>>

\* The index entries of bp that do not point at their block in chunkOf.
Unsound(bp, chunkOf) ==
    IF bp.nil THEN {}
    ELSE {b \in DOMAIN bp.ptrs :
             ~ /\ bp.ptrs[b].I \in DOMAIN chunkOf
               /\ bp.ptrs[b].J < Len(chunkOf[bp.ptrs[b].I].blocks)
               /\ chunkOf[bp.ptrs[b].I].blocks[bp.ptrs[b].J + 1] = b}

\* Store.NotifyTip goes on to sync both stores.
Syncs(s, tip) ==
    /\ s.loadedTip # tip
    /\ tip \notin DOMAIN VolIndexed(s.volatile).blockPtrs.ptrs

\* The background loop calls h.store.NotifyTip(tip); the worker notes which
\* of the three cases it was and what the call left behind.
SyNotifyTip(tip) ==
    /\ store' = NotifyTip(store, disk, tip)
    /\ LET after == NotifyTip(store, disk, tip)
           vol == store.volatile
       IN  rq' = [rq EXCEPT ![Notifier] =
                    [kind |-> "notified",
                     tip |-> tip,
                     same |-> tip = store.loadedTip,
                     indexed |-> /\ tip # store.loadedTip
                                 /\ ~vol.blockPtrs.nil
                                 /\ tip \in DOMAIN vol.blockPtrs.ptrs
                     ,
                     synced |-> Syncs(store, tip),
                     stale |-> DiskUnchanged(store, disk) = FALSE,
                     storeSame |-> after = store,
                     onlyTip |-> after = [store EXCEPT !.loadedTip = tip],
                     chunksSame |-> /\ after.immutable.chunks = store.immutable.chunks
                                    /\ after.volatile.chunks = vol.chunks,
                     gone |-> DOMAIN after.volatile.chunks \ DOMAIN disk.volatile,
                     orphans |-> IF after.volatile.blockPtrs.nil THEN {}
                                 ELSE {b \in DOMAIN after.volatile.blockPtrs.ptrs :
                                          after.volatile.blockPtrs.ptrs[b].I
                                              \notin DOMAIN disk.volatile}]]
    /\ UNCHANGED <<now, txs, mu, pc, ov, locked, smu, sel, mmu, pmu, imu, vmu, disk, paramsCache>>

\* GET /api/block/{blockID}: the worker notes the block Store.Block gave.
SyBlock(p, blockID, fileOk) ==
    /\ p # Notifier
    /\ store' = Block(store, blockID, fileOk).store
    /\ Answered(p, [kind |-> "got", asked |-> blockID,
                     block |-> Block(store, blockID, fileOk).block])
    /\ UNCHANGED <<now, txs, mu, pc, ov, locked, smu, sel, mmu, pmu, imu, vmu, disk, paramsCache>>

\* The block ID of the requests: the block that is rolled back first.
RolledBack == {"b1"}

NextSync ==
    \/ \E fresh \in BOOLEAN : StVolWrite(fresh)
    \/ StImmWrite
    \/ \E i \in 0..MaxTime : SyVolRewrite(i)
    \/ \E i \in 0..MaxTime : SyVolDelete(i)
    \/ \E tip \in BlockIDs : SyNotifyTip(tip)
    \/ \E p \in Procs, blockID \in RolledBack, fileOk \in BOOLEAN : SyBlock(p, blockID, fileOk)

SpecSync == InitStore /\ [][NextSync]_vars

\* Every entry of the immutable block index points at its block.
ImmIndexSound ==
    Unsound(store.immutable.blockPtrs,
            [i \in 0..(Len(store.immutable.chunks) - 1) |-> store.immutable.chunks[i + 1]]) = {}

\* Every entry of the volatile block index points at its block.
VolIndexSound == Unsound(store.volatile.blockPtrs, store.volatile.chunks) = {}

\* Block gave the block asked for, or none.
BlockAsAsked ==
    \A p \in Procs : rq[p].kind = "got" => rq[p].block \in {"", rq[p].asked}

\* C26: once a block index exists, after any sequence of chunk rewrites on
\* disk and NotifyTip syncs every index entry blockID -> (chunk i, entry j)
\* refers to a loaded chunk i whose entry j is the block with that ID, and
\* Block never returns a block whose ID differs from the one asked for.
BlockIndexSound == ImmIndexSound /\ VolIndexSound /\ BlockAsAsked

\* The last NotifyTip call went on to sync, as its worker noted it.
Synced == rq[Notifier].kind = "notified" /\ rq[Notifier].synced

\* C27: after a NotifyTip sync that follows the deletion of a loaded
\* volatile chunk file, that chunk is no longer loaded and the volatile
\* block index has no entry pointing to it.
DeletedChunkDropped == Synced => (rq[Notifier].gone = {} /\ rq[Notifier].orphans = {})

\* A sync leaves no index entry that points at a chunk that is not loaded.
NoOrphanedPtrs ==
    ~store.volatile.blockPtrs.nil =>
        \A b \in DOMAIN store.volatile.blockPtrs.ptrs :
            store.volatile.blockPtrs.ptrs[b].I \in DOMAIN store.volatile.chunks

\* C28: NotifyTip(tip) with tip equal to loadedTip changes nothing; with a
\* tip that differs and is already in the volatile block index it sets
\* loadedTip to tip, changes nothing else and reloads, adds or removes no
\* chunk; both stores are synced only in the remaining case.
NotifyTipFastPaths ==
    rq[Notifier].kind = "notified" =>
        /\ rq[Notifier].same => rq[Notifier].storeSame
        /\ rq[Notifier].indexed => (rq[Notifier].onlyTip /\ rq[Notifier].chunksSame)
        /\ ~rq[Notifier].synced => rq[Notifier].chunksSame
        /\ rq[Notifier].synced => (~rq[Notifier].same /\ ~rq[Notifier].indexed)

\* NotifyTip took the second fast path while a chunk file differed from the
\* chunk loaded from it.
NotifyTipWitness ==
    /\ rq[Notifier].kind = "notified"
    /\ rq[Notifier].indexed
    /\ rq[Notifier].stale
    /\ rq[Notifier].onlyTip

\* ------------------------------------------------------------- Tip poller

\* strings.HasPrefix on character sequences.
HasPrefix(s, prefix) ==
    Len(s) >= Len(prefix) /\ SubSeq(s, 1, Len(prefix)) = prefix

\* The syncProgress values of cardano-cli query tip.
SyncProgresses ==
    {<<"1", "0", "0", ".", "0", "0">>, <<"9", "9", ".", "9", "8">>,
     <<"1", "0", ".", "0", "0">>}

\* The database directories at start, with those of a chain that has no
\* immutable chunk yet.
PollerDisks ==
    InitialDisks \cup
        {[immutable |-> <<>>, volatile |-> EmptyMap],
         [immutable |-> <<>>, volatile |-> (0 :> Chunk(0, <<"b0">>))]}

\* Store.NotifyTip panics: ImmStore.syncLoadedBlocks reads
\* s.chunks[len(s.chunks) - 1] under s.mu.Lock() with no chunk loaded.
NotifyTipPanics(s, tip) == Syncs(s, tip) /\ Len(s.immutable.chunks) = 0

InitPoller ==
    /\ now = 0
    /\ txs = EmptyMap
    /\ ov = NoCall
    /\ FreshSelector
    /\ sel = NoSelection
    /\ IdleProcs
    /\ mmu = Unlocked /\ pmu = Unlocked /\ imu = Unlocked /\ vmu = Unlocked
    /\ paramsCache = EmptyCache
    /\ disk \in PollerDisks
    /\ store = LoadStore(disk)

\* time.Sleep(5 * time.Second)
PoSleep ==
    /\ pc[Notifier] = "idle"
    /\ pc' = [pc EXCEPT ![Notifier] = "query"]
    /\ UNCHANGED <<now, txs, mu, rq, ov, locked, smu, sel, subsystems>>

\* handler.cli.Tip() and the test on its result; nothing is written to the
\* log on either branch.
PoTip(ok, syncProgress, hash) ==
    /\ pc[Notifier] = "query"
    /\ pc' = [pc EXCEPT ![Notifier] =
                IF ok /\ HasPrefix(syncProgress, <<"1", "0", "0">>) THEN "notify" ELSE "idle"]
    /\ rq' = [rq EXCEPT ![Notifier] =
                [kind |-> "tip", ok |-> ok, hash |-> hash,
                 synced |-> HasPrefix(syncProgress, <<"1", "0", "0">>),
                 logged |-> FALSE]]
    /\ UNCHANGED <<now, txs, mu, ov, locked, smu, sel, subsystems>>

\* handler.store.NotifyTip(tip.Hash): back in the loop, or the goroutine
\* panics with the immutable lock held, which ends the process.
PoNotifyTip ==
    /\ pc[Notifier] = "notify"
    /\ IF NotifyTipPanics(store, rq[Notifier].hash)
       THEN /\ pc' = [pc EXCEPT ![Notifier] = "panic"]
            /\ imu' = Lock(imu, Notifier)
            /\ store' = [store EXCEPT !.volatile = VolIndexed(@)]
       ELSE /\ pc' = [pc EXCEPT ![Notifier] = "idle"]
            /\ imu' = imu
            /\ store' = NotifyTip(store, disk, rq[Notifier].hash)
    /\ UNCHANGED <<now, txs, mu, rq, ov, locked, smu, sel, mmu, pmu, vmu, disk, paramsCache>>

NextPoller ==
    \/ PoSleep
    \/ \E ok \in BOOLEAN, syncProgress \in SyncProgresses, hash \in BlockIDs :
          PoTip(ok, syncProgress, hash)
    \/ PoNotifyTip
    \/ \E fresh \in BOOLEAN : StVolWrite(fresh)
    \/ \E i \in 0..MaxTime : SyVolRewrite(i)
    \/ \E i \in 0..MaxTime : SyVolDelete(i)

SpecPoller == InitPoller /\ [][NextPoller]_vars

\* NotifyTip is called only after a query that succeeded with a
\* syncProgress that starts with 100.
PollerCallsWhenSynced ==
    pc[Notifier] = "notify" => (rq[Notifier].ok /\ rq[Notifier].synced)

\* Between two calls of NotifyTip no store lock is held.
PollerLocksReleased ==
    pc[Notifier] \in {"idle", "query", "notify"} => (imu = Unlocked /\ vmu = Unlocked)

\* A failed query was logged.
FailedQueryLogged ==
    (rq[Notifier].kind = "tip" /\ ~rq[Notifier].ok) => rq[Notifier].logged

\* The poller is in its loop.
PollerRunning == pc[Notifier] \in {"idle", "query", "notify"}

\* C29: the tip poller calls NotifyTip only when the query succeeded and
\* syncProgress starts with 100; a failed query or a failure inside a sync
\* is logged, leaves every store lock released and the poller running for
\* the next round; the process is never terminated.
TipPoller ==
    /\ PollerCallsWhenSynced
    /\ FailedQueryLogged
    /\ PollerRunning
    /\ imu = Unlocked /\ vmu = Unlocked

\* -------------------------------------------------------- Constructor tags

\* The constructors of the model: the tags up to MaxConstrTag and a large
\* one, with no field, one field, and one field in an indefinite list.
MaxConstrTag == 130
ConstrTagInputs == 0..MaxConstrTag \cup {1000}
ConstrFields ==
    {DList("def", <<>>), DList("def", <<DInt(1)>>), DList("indef", <<DInt(1)>>)}

InitConstr ==
    /\ now = 0
    /\ txs = EmptyMap
    /\ FreshSelector
    /\ FreshStore
    /\ sel = NoSelection
    /\ IdleProcs
    /\ ov \in {[done |-> FALSE, tag |-> tag, fields |-> fields] :
                  tag \in ConstrTagInputs, fields \in ConstrFields}

\* DecodedConstr.Cbor() and Decode of the bytes.
CtRoundTrip ==
    /\ ~ov.done
    /\ LET cbor == Cbor(DConstr(ov.tag, ov.fields))
           r == Decode(cbor)
       IN  ov' = [done |-> TRUE, tag |-> ov.tag, fields |-> ov.fields,
                  head |-> encodeConstrTag(ov.tag), cbor |-> cbor,
                  ok |-> r.ok, decoded |-> IF r.ok THEN r.v ELSE DNull]
    /\ UNCHANGED <<subsystems, now, txs, mu, pc, rq, locked, smu, sel>>

NextConstr == CtRoundTrip

SpecConstr == InitConstr /\ [][NextConstr]_vars

\* The head of the encoding is the CBOR tag of the claim: 121 + n up to 6,
\* 1280 + (n - 7) up to 127, and 102 with the head of a list of two and n
\* above; the fields follow.
ConstrTagEncoded ==
    ov.done =>
        LET h == decodeDefHead(ov.head, 1)
        IN  /\ h.ok /\ h.m = 6
            /\ ov.tag <= 6 => (h.n = 121 + ov.tag /\ h.pos = Len(ov.head) + 1)
            /\ (ov.tag >= 7 /\ ov.tag <= 127) =>
                  (h.n = 1280 + (ov.tag - 7) /\ h.pos = Len(ov.head) + 1)
            /\ ov.tag > 127 =>
                  /\ h.n = 102
                  /\ SubSeq(ov.head, h.pos, Len(ov.head)) = <<4 * 32 + 2>> \o encodeInt(ov.tag)
            /\ ov.cbor = ov.head \o Cbor(ov.fields)

\* The constructor came back from Decode with its tag and its fields.
ConstrDecoded ==
    /\ ov.ok
    /\ ov.decoded.t = "constr"
    /\ ov.decoded.tag = ov.tag
    /\ ov.decoded.fields = ov.fields

\* The tags outside 7..127 come back.
ConstrDecodedOutside == (ov.done /\ (ov.tag < 7 \/ ov.tag > 127)) => ConstrDecoded

\* C30: encodeConstrTag maps tag n in 0..6 to CBOR tag 121+n, n in 7..127 to
\* CBOR tag 1280+(n-7) and larger n to CBOR tag 102 followed by a definite
\* list of two (n, fields); decoding the encoding of a constructor with any
\* tag n >= 0 yields tag n and the same fields.
ConstrTagRoundTrip == ConstrTagEncoded /\ (ov.done => ConstrDecoded)

\* --------------------------------------------- EncodeUTXO / EncodeTxOutput

\* Hex strings are held as the bytes hex.DecodeString gives, "" as no bytes;
\* the strings of the model are all valid hex, so no encoder fails.

RECURSIVE Concat(_)
Concat(entries) == IF entries = <<>> THEN <<>> ELSE Head(entries) \o Concat(Tail(entries))

\* EncodeBytes / encodeDefBytes
EncodeBytes(bs) == encodeDefHead(2, Len(bs)) \o bs

\* EncodeDefList and EncodeTuple: the entries are already encoded.
EncodeDefList(entries) == encodeDefHead(4, Len(entries)) \o Concat(entries)
EncodeTuple(entries) == EncodeDefList(entries)

EncodedPair(k, v) == [Key |-> k, Value |-> v]

\* EncodeDefMap and EncodeMap
EncodeDefMap(pairs) ==
    encodeDefHead(5, Len(pairs))
        \o Concat([i \in DOMAIN pairs |-> pairs[i].Key \o pairs[i].Value])
EncodeMap(pairs) == EncodeDefMap(pairs)

EncodeTag(tag) == encodeDefHead(6, tag)

EncodeHashedDatum(hash) == EncodeTuple(<<encodeInt(0), EncodeBytes(hash)>>)

EncodeInlineDatum(inlineDatum) ==
    EncodeTuple(<<encodeInt(1), EncodeTag(24) \o EncodeBytes(inlineDatum)>>)

EncodeRefScript(refScript) ==
    EncodeTag(24) \o EncodeBytes(EncodeTuple(<<encodeInt(2), EncodeBytes(refScript)>>))

\* for k := range m: the keys of the Go map m in the order the run time
\* picks, which is any order; order lists every possible key.
Range(m, order) == SelectSeq(order, LAMBDA k : k \in DOMAIN m)

\* EncodeObjectIKey(fields) with the iteration order of fields.
EncodeObjectIKey(fields, order) ==
    EncodeDefMap([i \in 1..Len(Range(fields, order)) |->
                     EncodedPair(encodeInt(Range(fields, order)[i]),
                                 fields[Range(fields, order)[i]])])

\* The map of EncodeAssets: policy -> token name -> quantity, a later asset
\* replacing an earlier one of the same policy and name.  An asset is held
\* as [policy, name, quantity], the two parts Asset[0:56] and Asset[56:].
LastOf(assets, policy, name) ==
    assets[CHOOSE i \in DOMAIN assets :
               /\ assets[i].policy = policy /\ assets[i].name = name
               /\ \A j \in DOMAIN assets :
                     (assets[j].policy = policy /\ assets[j].name = name) => j <= i]

AssetsMap(assets) ==
    [policy \in {assets[i].policy : i \in DOMAIN assets} |->
        [name \in {assets[i].name : i \in {j \in DOMAIN assets : assets[j].policy = policy}} |->
            LastOf(assets, policy, name).quantity]]

EncodeTokens(tokens, names) ==
    EncodeMap([i \in DOMAIN names |->
                  EncodedPair(EncodeBytes(names[i]), encodeInt(tokens[names[i]]))])

EncodePolicies(m, policies, tokenOrder) ==
    EncodeMap([i \in DOMAIN policies |->
                  EncodedPair(EncodeBytes(policies[i]),
                              EncodeTokens(m[policies[i]],
                                           Range(m[policies[i]], tokenOrder)))])

\* EncodeAssets(assets) with the iteration orders of its maps.
EncodeAssets(assets, policyOrder, tokenOrder) ==
    EncodePolicies(AssetsMap(assets), Range(AssetsMap(assets), policyOrder), tokenOrder)

\* EncodeValue
EncodeValue(lovelace, assets, policyOrder, tokenOrder) ==
    IF Len(assets) = 0 THEN encodeInt(lovelace)
    ELSE EncodeTuple(<<encodeInt(lovelace), EncodeAssets(assets, policyOrder, tokenOrder)>>)

\* The datum field of EncodeTxOutput, set inside the test on datumHash.
DatumField(datumHash, inlineDatum) ==
    IF datumHash # <<>>
    THEN IF inlineDatum = <<>> THEN (2 :> EncodeHashedDatum(datumHash))
         ELSE (2 :> EncodeInlineDatum(inlineDatum))
    ELSE EmptyMap

\* EncodeTxOutput; o holds the iteration orders [fields, policies, tokens].
EncodeTxOutput(addr, lovelace, assets, datumHash, inlineDatum, refScript, o) ==
    EncodeObjectIKey(
        (0 :> EncodeBytes(addr))
            @@ (1 :> EncodeValue(lovelace, assets, o.policies, o.tokens))
            @@ DatumField(datumHash, inlineDatum)
            @@ (IF refScript # <<>> THEN (3 :> EncodeRefScript(refScript)) ELSE EmptyMap),
        o.fields)

EncodeTxOutputID(txID, outputIndex) ==
    EncodeTuple(<<EncodeBytes(txID), encodeInt(outputIndex)>>)

\* EncodeUTXO(utxo), to bytes.
EncodeUTXOBytes(utxo, o) ==
    EncodeTuple(<<EncodeTxOutputID(utxo.txID, utxo.outputIndex),
                  EncodeTxOutput(utxo.address, utxo.lovelace, utxo.assets, utxo.datumHash,
                                 utxo.inlineDatum, utxo.refScript, o)>>)

\* The UTXOs of the model: with and without a datum hash, an inline datum
\* and a reference script, and with no asset, one, two of one policy, two
\* of two policies, and one asset listed twice.
PolicyIDs == {<<1>>, <<2>>}
TokenNames == {<<3>>, <<4>>}
PolicyAsset(policy, name, quantity) == [policy |-> policy, name |-> name, quantity |-> quantity]
AssetLists ==
    {<<>>,
     <<PolicyAsset(<<1>>, <<3>>, 5)>>,
     <<PolicyAsset(<<1>>, <<3>>, 5), PolicyAsset(<<1>>, <<4>>, 6)>>,
     <<PolicyAsset(<<1>>, <<3>>, 5), PolicyAsset(<<2>>, <<3>>, 6)>>,
     <<PolicyAsset(<<1>>, <<3>>, 5), PolicyAsset(<<1>>, <<3>>, 6)>>}
EncodedUTXOs ==
    {[txID |-> <<10>>, outputIndex |-> 0, address |-> <<11>>, lovelace |-> 7,
      assets |-> assets, datumHash |-> datumHash, inlineDatum |-> inlineDatum,
      refScript |-> refScript] :
        assets \in AssetLists, datumHash \in {<<>>, <<12>>},
        inlineDatum \in {<<>>, <<1>>}, refScript \in {<<>>, <<13>>}}

\* The calls of EncodeUTXO on one UTXO.
MaxEncodings == 2

InitTxOutput ==
    /\ now = 0
    /\ txs = EmptyMap
    /\ FreshSelector
    /\ FreshStore
    /\ sel = NoSelection
    /\ IdleProcs
    /\ ov \in {[done |-> FALSE, utxo |-> utxo, outs |-> <<>>] : utxo \in EncodedUTXOs}

\* One call of EncodeUTXO(utxo), its maps iterated in the orders given.
ToEncode(fields, policies, tokens) ==
    /\ Len(ov.outs) < MaxEncodings
    /\ ov' = [ov EXCEPT !.outs =
                Append(@, EncodeUTXOBytes(ov.utxo, [fields |-> fields, policies |-> policies,
                                                    tokens |-> tokens]))]
    /\ UNCHANGED <<subsystems, now, txs, mu, pc, rq, locked, smu, sel>>

NextTxOutput ==
    \E fields \in Orders(0..3), policies \in Orders(PolicyIDs), tokens \in Orders(TokenNames) :
        ToEncode(fields, policies, tokens)

SpecTxOutput == InitTxOutput /\ [][NextTxOutput]_vars

\* The fields of the output in the bytes out: the values of the decoded
\* map by key.
OutputPairs(out) == Decode(out).v.items[2].pairs
OutputKeys(out) == {OutputPairs(out)[i].key.value : i \in DOMAIN OutputPairs(out)}
OutputField(out, k) ==
    OutputPairs(out)[CHOOSE i \in DOMAIN OutputPairs(out) :
                         OutputPairs(out)[i].key.value = k].value

\* The datum field of the claim in the bytes out of the UTXO u.
DatumEncoded(u, out) ==
    /\ Decode(out).ok
    /\ (u.datumHash # <<>> /\ u.inlineDatum = <<>>) =>
          /\ 2 \in OutputKeys(out)
          /\ OutputField(out, 2) = DList("def", <<DInt(0), DBytes("def", u.datumHash)>>)
    /\ u.inlineDatum # <<>> =>
          /\ 2 \in OutputKeys(out)
          /\ OutputField(out, 2) =
                DList("def", <<DInt(1), DEnvelope(24, "def", Decode(u.inlineDatum).v)>>)
    /\ (u.datumHash = <<>> /\ u.inlineDatum = <<>>) => 2 \notin OutputKeys(out)

\* C31: a UTXO with a datum hash and no inline datum is encoded with key 2
\* as tuple(0, hash); a UTXO with an inline datum is encoded with key 2 as
\* tuple(1, tag 24 + datum bytes), also when its datumHash is empty; key 2
\* is absent only when the UTXO has neither.
TxOutputDatum == \A i \in DOMAIN ov.outs : DatumEncoded(ov.utxo, ov.outs[i])

\* The datum field is as the claim has it for the UTXOs that have a datum
\* hash or no inline datum.
TxOutputDatumWithHash ==
    (ov.utxo.datumHash # <<>> \/ ov.utxo.inlineDatum = <<>>) => TxOutputDatum

\* C40: encoding the same UTXO twice with EncodeUTXO yields identical
\* bytes, independent of map iteration order.
EncodeDeterministic == \A i, j \in DOMAIN ov.outs : ov.outs[i] = ov.outs[j]

\* ------------------------------------------- Overlay: consumed and kept

\* The keys the transactions of the mempool m consume, and the outputs they
\* produce.
ConsumedKeys(m) == UNION {{KeyOf(c.txID, c.index) : c \in Consumed(h)} : h \in DOMAIN m}
ProducedBy(m) == UNION {Produced(h) : h \in DOMAIN m}

\* C32: Overlay never returns a UTXO that a transaction in the mempool
\* consumes, whatever order the mempool transactions are visited in,
\* including an output that one mempool transaction produces and another
\* mempool transaction consumes.
OverlayNeverConsumed == ov.done => Keys(ov.result) \cap ConsumedKeys(txs) = {}

\* Every base UTXO that no mempool transaction consumes is in the result
\* unchanged, whether or not it passes the filter.
OverlayKeepsBase ==
    ov.done => \A u \in ov.base : utxoKey(u) \notin ConsumedKeys(txs) => u \in ov.result

\* A UTXO of the result that is not of base was produced by a mempool
\* transaction and passes the filter.
OverlayAddsFiltered ==
    ov.done => \A u \in ov.result \ ov.base : u \in ProducedBy(txs) /\ Passes(ov.filter, u)

\* The result holds, besides the base UTXOs that no mempool transaction
\* consumes, only produced outputs that pass the filter and whose key no
\* base UTXO has.
OverlayAddsOnly ==
    ov.done =>
        \A u \in ov.result :
            \/ u \in ov.base /\ utxoKey(u) \notin ConsumedKeys(txs)
            \/ /\ u \in ProducedBy(txs)
               /\ Passes(ov.filter, u)
               /\ utxoKey(u) \notin Keys(ov.base)

\* C37: every base UTXO that no mempool transaction consumes is in the
\* result unchanged, whether or not it passes the filter; an output produced
\* by a mempool transaction is added only if it passes the filter and base
\* has no UTXO with the same key.
OverlayFrame == OverlayKeepsBase /\ OverlayAddsOnly

\* ----------------------------------------------- GET /api/tx/{txID}

\* The transaction a client submits, and the block and index the node
\* includes it at.
PendingTx == "a1"
TxBlock == [blockID |-> "b2", index |-> 0]

\* The ledger tables of db-sync and the submit, kept in ov: sql is the set
\* of blocks db-sync has inserted, deadline the TTL deadline submit gave.
NoSql == [done |-> FALSE, sql |-> {}, submitted |-> FALSE, deadline |-> ZeroTime]

\* DB.FilterMissingTxs(ids): the ids with no row in tx.
FilterMissingTxs(ids, sql) ==
    [ok |-> TRUE, missing |-> {h \in ids : ~(h = PendingTx /\ TxBlock.blockID \in sql)}]

\* The tip cardano-cli reports: the last block the node wrote.
NodeTip(d) ==
    IF DOMAIN d.volatile = {} THEN ChunkTip(d.immutable[Len(d.immutable)])
    ELSE ChunkTip(d.volatile[MaxOf(DOMAIN d.volatile, -1)])

\* Handler.txContent: the status of GET /api/tx/{txID}; sqlOk tells whether
\* the query of TxBlockInfo came through.
txContent(m, sql, s, txID, sqlOk) ==
    IF txID \in DOMAIN m THEN 200
    ELSE IF ~sqlOk \/ ~(txID = PendingTx /\ TxBlock.blockID \in sql) THEN 404
    ELSE LET r == BlockTx(s, TxBlock.blockID, TxBlock.index, TRUE)
         IN  IF r.err THEN 500 ELSE IF r.tx = "" THEN 404 ELSE 200

InitTxContent ==
    /\ now = 0
    /\ txs = EmptyMap
    /\ ov = NoSql
    /\ FreshSelector
    /\ sel = NoSelection
    /\ IdleProcs
    /\ mmu = Unlocked /\ pmu = Unlocked /\ imu = Unlocked /\ vmu = Unlocked
    /\ paramsCache = EmptyCache
    /\ disk \in InitialDisks
    /\ store = LoadStore(disk)

\* A successful Handler.submitTx of PendingTx, before the node has made the
\* block that includes it.
TcSubmit(ttl) ==
    /\ ~ov.submitted
    /\ TxBlock.blockID \notin OnDisk(disk)
    /\ txs' = AddTx(txs, PendingTx, ttl)
    /\ ov' = [ov EXCEPT !.submitted = TRUE, !.deadline = ttl]
    /\ UNCHANGED <<subsystems, now, mu, pc, rq, locked, sel, smu>>

\* db-sync inserts the blocks the node has written.
TcDbSync ==
    /\ ov.sql # OnDisk(disk)
    /\ ov' = [ov EXCEPT !.sql = OnDisk(disk)]
    /\ UNCHANGED <<subsystems, now, txs, mu, pc, rq, locked, sel, smu>>

\* Mempool.prune, called by a request for the mempool or for UTXOs.
TcPrune(ok) ==
    /\ LET q == FilterMissingTxs(DOMAIN KeepUnexpired(txs, now), ov.sql)
       IN  txs' = Prune(txs, now, [q EXCEPT !.ok = ok])
    /\ txs' # txs
    /\ UNCHANGED <<subsystems, now, mu, pc, rq, ov, locked, sel, smu>>

\* GET /api/tx/{txID}.  The worker notes the time, whether the transaction
\* was submitted and with which deadline.
TcTxContent(p, sqlOk) ==
    /\ p # Notifier
    /\ store' = IF PendingTx \in DOMAIN txs \/ ~sqlOk \/ TxBlock.blockID \notin ov.sql
                THEN store
                ELSE BlockTx(store, TxBlock.blockID, TxBlock.index, TRUE).store
    /\ Answered(p, [kind |-> "txContent", at |-> now, sqlOk |-> sqlOk,
                     submitted |-> ov.submitted, deadline |-> ov.deadline,
                     pending |-> PendingTx \in DOMAIN txs,
                     loaded |-> TxBlock.blockID \in InStore(store),
                     status |-> txContent(txs, ov.sql, store, PendingTx, sqlOk)])
    /\ UNCHANGED <<now, txs, mu, pc, ov, locked, smu, sel, mmu, pmu, imu, vmu, disk, paramsCache>>

NextTxContent ==
    \/ \E ttl \in TTLs : TcSubmit(ttl)
    \/ \E fresh \in BOOLEAN : StVolWrite(fresh)
    \/ TcDbSync
    \/ \E ok \in BOOLEAN : TcPrune(ok)
    \/ StNotifyTip(NodeTip(disk))
    \/ \E p \in Procs, sqlOk \in BOOLEAN : TcTxContent(p, sqlOk)
    \/ MtTick

SpecTxContent == InitTxContent /\ [][NextTxContent]_vars

\* The last GET /api/tx/{txID} of worker p, made for a submitted
\* transaction not after its deadline, with the queries coming through.
TxContentAsked(p) ==
    /\ rq[p].kind = "txContent"
    /\ rq[p].submitted
    /\ rq[p].sqlOk
    /\ rq[p].at <= rq[p].deadline

\* While the transaction is in the mempool the request answers 200.
TxContentFromMempool ==
    \A p \in Procs : TxContentAsked(p) /\ rq[p].pending => rq[p].status = 200

\* Once the store has loaded the block of the transaction, the request
\* answers 200.
TxContentFromChain ==
    \A p \in Procs : TxContentAsked(p) /\ rq[p].loaded => rq[p].status = 200

\* C33: a transaction accepted by submit is retrievable by GET tx-content at
\* every later moment before its TTL deadline: the request answers 200, from
\* the mempool or from SQL and the chain store; in no window it is found in
\* neither.
TxContentAvailable ==
    \A p \in Procs : TxContentAsked(p) => rq[p].status = 200

\* --------------------------------------------------- Store: loadedTip

\* Store.Block resolves blockID: it returns that block.
Resolves(s, blockID) == Block(s, blockID, TRUE).block = blockID

\* After a NotifyTip(T) that did not find T, loadedTip is not T.
LoadedTipFound ==
    rq[Notifier].kind = "notified" /\ ~Resolves(store, rq[Notifier].tip)
        => store.loadedTip # rq[Notifier].tip

\* C34: loadedTip is always the ID of a block that Block can resolve:
\* NotifyTip(T) advances loadedTip to T only if block T is found in the
\* volatile index or by the sync.
LoadedTipResolvable == Resolves(store, store.loadedTip)

\* ----------------------------------------------------- VolStore.Tip

\* The last block of the highest-numbered loaded volatile chunk.
NewestVolTip(vol) == ChunkTip(vol.chunks[MaxOf(DOMAIN vol.chunks, -1)])

\* Before any sync has loaded a new chunk file, VolStore.Tip() is the last
\* block of the highest-numbered loaded volatile chunk.
VolTipAsLoaded ==
    (DOMAIN store.volatile.chunks # {} /\ ~Notified)
        => VolTip(store.volatile) = NewestVolTip(store.volatile)

\* C35: VolStore.Tip() always returns the ID of the last block of the
\* highest-numbered loaded volatile chunk, also after a sync has loaded new
\* chunk files.
VolTipNewest ==
    DOMAIN store.volatile.chunks # {}
        => VolTip(store.volatile) = NewestVolTip(store.volatile)

\* ------------------------------ Store: lookups and syncs run concurrently

\* Every access to chunks and blockPtrs is made under s.mu, so each locked
\* section is one step, and the steps of the lookups and of NotifyTip
\* interleave.  pc and rq hold the lookup of each worker, ov the NotifyTip
\* call of the background loop: [done, at, tip].

\* ImmStore.indexBlocks and VolStore.indexBlocks: a new map with the blocks
\* of every loaded chunk.
ImmIndexBlocks(imm) ==
    [imm EXCEPT !.blockPtrs =
        [nil |-> FALSE,
         ptrs |-> indexAll(EmptyMap, [i \in 0..(Len(imm.chunks) - 1) |-> imm.chunks[i + 1]],
                           0..(Len(imm.chunks) - 1))]]

VolIndexBlocks(vol) ==
    [vol EXCEPT !.blockPtrs =
        [nil |-> FALSE, ptrs |-> indexAll(EmptyMap, vol.chunks, DOMAIN vol.chunks)]]

\* The second locked section of ImmStore.block and of VolStore.block: the
\* block the index leads to, "" for nil.
ImmBlockAt(imm, blockID) ==
    IF blockID \in DOMAIN imm.blockPtrs.ptrs THEN blockID ELSE ""

VolBlockAt(vol, blockID) ==
    IF blockID \notin DOMAIN vol.blockPtrs.ptrs THEN ""
    ELSE LET ptr == vol.blockPtrs.ptrs[blockID]
         IN  IF ptr.I \in DOMAIN vol.chunks /\ ptr.J < Len(vol.chunks[ptr.I].blocks)
             THEN vol.chunks[ptr.I].blocks[ptr.J + 1] ELSE ""

\* The blocks in the loaded chunks of each store.
InImm(s) == OnDisk([immutable |-> s.immutable.chunks, volatile |-> EmptyMap])
InVol(s) == OnDisk([immutable |-> <<>>, volatile |-> s.volatile.chunks])

Idle == [done |-> FALSE, at |-> "idle", tip |-> ""]

InitIndex ==
    /\ now = 0
    /\ txs = EmptyMap
    /\ ov = Idle
    /\ FreshSelector
    /\ sel = NoSelection
    /\ IdleProcs
    /\ mmu = Unlocked /\ pmu = Unlocked /\ imu = Unlocked /\ vmu = Unlocked
    /\ paramsCache = EmptyCache
    /\ disk \in InitialDisks
    /\ store = LoadStore(disk)

IxFrame == UNCHANGED <<now, txs, mu, locked, smu, sel, mmu, pmu, imu, vmu, disk, paramsCache>>

\* ImmStore.block under s.mu.RLock(), the index being there: found, Block
\* returns the block (the file read is left out); else Block goes on to
\* the volatile store.  The worker notes in missed whether a store it read
\* had the block in a loaded chunk and did not give it.
IxImmLooked(p, blockID) ==
    IF ImmBlockAt(store.immutable, blockID) # ""
    THEN /\ pc' = [pc EXCEPT ![p] = "idle"]
         /\ rq' = [rq EXCEPT ![p] = [kind |-> "looked", asked |-> blockID,
                                     block |-> blockID, missed |-> FALSE]]
    ELSE /\ pc' = [pc EXCEPT ![p] = "volLook"]
         /\ rq' = [rq EXCEPT ![p] = [kind |-> "looking", asked |-> blockID,
                                     missed |-> blockID \in InImm(store)]]

\* VolStore.block under s.mu.RLock(), the index being there.
IxVolLooked(p) ==
    /\ pc' = [pc EXCEPT ![p] = "idle"]
    /\ rq' = [rq EXCEPT ![p] =
                [kind |-> "looked", asked |-> rq[p].asked,
                 block |-> VolBlockAt(store.volatile, rq[p].asked),
                 missed |-> \/ rq[p].missed
                            \/ /\ rq[p].asked \in InVol(store)
                               /\ VolBlockAt(store.volatile, rq[p].asked) # rq[p].asked]]

\* Store.Block(blockID): ImmStore.block up to the test of blockPtrs, and
\* the lookup when the index is there.
IxImmLook(p, blockID) ==
    /\ pc[p] = "idle"
    /\ IF store.immutable.blockPtrs.nil
       THEN /\ pc' = [pc EXCEPT ![p] = "immIndex"]
            /\ rq' = [rq EXCEPT ![p] = [kind |-> "looking", asked |-> blockID,
                                        missed |-> FALSE]]
       ELSE IxImmLooked(p, blockID)
    /\ UNCHANGED <<store, ov>>
    /\ IxFrame

\* s.indexBlocks() of ImmStore.block, under s.mu.Lock().
IxImmIndex(p) ==
    /\ pc[p] = "immIndex"
    /\ store' = [store EXCEPT !.immutable = ImmIndexBlocks(@)]
    /\ pc' = [pc EXCEPT ![p] = "immRead"]
    /\ UNCHANGED <<rq, ov>>
    /\ IxFrame

\* ImmStore.block after s.indexBlocks().
IxImmRead(p) ==
    /\ pc[p] = "immRead"
    /\ IxImmLooked(p, rq[p].asked)
    /\ UNCHANGED <<store, ov>>
    /\ IxFrame

\* VolStore.block up to the test of blockPtrs, and the lookup when the
\* index is there.
IxVolLook(p) ==
    /\ pc[p] = "volLook"
    /\ IF store.volatile.blockPtrs.nil
       THEN pc' = [pc EXCEPT ![p] = "volIndex"] /\ UNCHANGED rq
       ELSE IxVolLooked(p)
    /\ UNCHANGED <<store, ov>>
    /\ IxFrame

\* s.indexBlocks() of VolStore.block, under s.mu.Lock().
IxVolIndex(p) ==
    /\ pc[p] = "volIndex"
    /\ store' = [store EXCEPT !.volatile = VolIndexBlocks(@)]
    /\ pc' = [pc EXCEPT ![p] = "volRead"]
    /\ UNCHANGED <<rq, ov>>
    /\ IxFrame

\* VolStore.block after s.indexBlocks().
IxVolRead(p) ==
    /\ pc[p] = "volRead"
    /\ IxVolLooked(p)
    /\ UNCHANGED <<store, ov>>
    /\ IxFrame

\* s.volatile.has(tip) under s.mu.RLock(), the index being there: found,
\* NotifyTip sets loadedTip and returns; else it goes on to the syncs.
IxHas(tip) ==
    IF tip \in DOMAIN store.volatile.blockPtrs.ptrs
    THEN /\ store' = [store EXCEPT !.loadedTip = tip]
         /\ ov' = [Idle EXCEPT !.tip = tip]
    ELSE /\ ov' = [Idle EXCEPT !.at = "immLoaded", !.tip = tip]
         /\ UNCHANGED store

\* The background loop calls h.store.NotifyTip(tip) with a tip other than
\* loadedTip: VolStore.has up to the test of blockPtrs, and the lookup when
\* the index is there.
IxNotify(tip) ==
    /\ ov.at = "idle"
    /\ store.loadedTip # tip
    /\ IF store.volatile.blockPtrs.nil
       THEN ov' = [Idle EXCEPT !.at = "hasIndex", !.tip = tip] /\ UNCHANGED store
       ELSE IxHas(tip)
    /\ UNCHANGED <<pc, rq>>
    /\ IxFrame

\* s.indexBlocks() of VolStore.has.
IxHasIndex ==
    /\ ov.at = "hasIndex"
    /\ store' = [store EXCEPT !.volatile = VolIndexBlocks(@)]
    /\ ov' = [ov EXCEPT !.at = "hasRead"]
    /\ UNCHANGED <<pc, rq>>
    /\ IxFrame

\* VolStore.has after s.indexBlocks().
IxHasRead ==
    /\ ov.at = "hasRead"
    /\ IxHas(ov.tip)
    /\ UNCHANGED <<pc, rq>>
    /\ IxFrame

\* The locked sections of s.immutable.sync() and s.volatile.sync(), one
\* after the other; the last one is followed by s.loadedTip = tip.
IxImmSyncLoaded ==
    /\ ov.at = "immLoaded"
    /\ store' = [store EXCEPT !.immutable = ImmSyncLoadedBlocks(@, disk)]
    /\ ov' = [ov EXCEPT !.at = "immNew"]
    /\ UNCHANGED <<pc, rq>>
    /\ IxFrame

IxImmSyncNew ==
    /\ ov.at = "immNew"
    /\ store' = [store EXCEPT !.immutable = ImmSyncNewBlocks(@, disk)]
    /\ ov' = [ov EXCEPT !.at = "volLoaded"]
    /\ UNCHANGED <<pc, rq>>
    /\ IxFrame

IxVolSyncLoaded ==
    /\ ov.at = "volLoaded"
    /\ store' = [store EXCEPT !.volatile = VolSyncLoadedBlocks(@, disk)]
    /\ ov' = [ov EXCEPT !.at = "volNew"]
    /\ UNCHANGED <<pc, rq>>
    /\ IxFrame

IxVolSyncNew ==
    /\ ov.at = "volNew"
    /\ store' = [store EXCEPT !.volatile = VolSyncNewBlocks(@, disk)]
    /\ ov' = [ov EXCEPT !.at = "volPrune"]
    /\ UNCHANGED <<pc, rq>>
    /\ IxFrame

IxVolPrune ==
    /\ ov.at = "volPrune"
    /\ store' = [store EXCEPT !.volatile = pruneOrphanedBlockPtrs(@),
                              !.loadedTip = ov.tip]
    /\ ov' = [ov EXCEPT !.at = "idle"]
    /\ UNCHANGED <<pc, rq>>
    /\ IxFrame

\* The block ID of the lookups: a block the node writes after the start.
LookedUp == {"b2"}

NextIndex ==
    \/ \E fresh \in BOOLEAN : StVolWrite(fresh)
    \/ StImmWrite
    \/ \E i \in 0..MaxTime : SyVolRewrite(i)
    \/ \E p \in Procs, blockID \in LookedUp : IxImmLook(p, blockID)
    \/ \E p \in Procs : IxImmIndex(p)
    \/ \E p \in Procs : IxImmRead(p)
    \/ \E p \in Procs : IxVolLook(p)
    \/ \E p \in Procs : IxVolIndex(p)
    \/ \E p \in Procs : IxVolRead(p)
    \/ IxNotify(NodeTip(disk))
    \/ IxHasIndex
    \/ IxHasRead
    \/ IxImmSyncLoaded
    \/ IxImmSyncNew
    \/ IxVolSyncLoaded
    \/ IxVolSyncNew
    \/ IxVolPrune

SpecIndex == InitIndex /\ [][NextIndex]_vars

\* Once an index is built, every block of every loaded chunk of its store
\* has an entry.
IndexComplete ==
    /\ ~store.immutable.blockPtrs.nil => InImm(store) \subseteq DOMAIN store.immutable.blockPtrs.ptrs
    /\ ~store.volatile.blockPtrs.nil => InVol(store) \subseteq DOMAIN store.volatile.blockPtrs.ptrs

\* No lookup read a store that had the block in a loaded chunk and did not
\* give it.
LookupFinds ==
    \A p \in Procs : rq[p].kind \in {"looking", "looked"} => ~rq[p].missed

\* C36: once a store's block index has been built, every block of every
\* loaded chunk has an index entry, also for chunks reloaded or added by
\* later syncs and when lookups and syncs run concurrently, so a block that
\* is in a loaded chunk is never reported as not found.
BlockIndexComplete == IndexComplete /\ LookupFinds

\* A lookup found a block of a chunk that a sync loaded, while a NotifyTip
\* call is under way.
BlockIndexWitness ==
    \E p \in Procs :
        /\ rq[p].kind = "looked"
        /\ rq[p].block = "b2"
        /\ ov.at = "volNew"

\* ------------------------------------- coin selection: the response

\* respondWithUTXOs for the selected UTXOs, called after the locks are set:
\* the status.  JSON unless the Accept header is application/cbor; for CBOR
\* an error of EncodeUTXO is answered 500.
respondWithUTXOs(accept, utxos) ==
    IF accept # "application/cbor" THEN 200
    ELSE IF \E i \in DOMAIN utxos : EncodeUTXO(utxos[i]).err THEN 500
    ELSE 200

\* POST /api/address/AddrA/utxos with body req, run by one worker alone,
\* up to the response.
RpSelect(req, accept) ==
    /\ ~sel.done
    /\ \E q \in QueryOutcomes(DOMAIN KeepUnexpired(txs, now)) :
          LET m1 == Prune(txs, now, q) IN
          \E mo \in Orders(DOMAIN m1) :
             LET utxos == Overlay(QueryFor(AddrA, req.asset),
                                  FilterFor(AddrA, req.asset), mo) IN
             \E order \in SelectOrders(utxos, locked, now, req) :
                LET r == Select(utxos, locked, now, req, order) IN
                /\ txs' = m1
                /\ locked' = r.locked
                /\ sel' = [done |-> TRUE, lockedBefore |-> locked, at |-> now,
                           tried |-> Len(order),
                           status |-> IF r.status # 200 THEN r.status
                                      ELSE respondWithUTXOs(accept, r.selected)]
    /\ UNCHANGED <<subsystems, now, mu, pc, rq, ov, smu>>

\* The request body does not decode (400), or the SQL query fails (500): the
\* handler returns before it touches the coin selector.
RpFail(status) ==
    /\ ~sel.done
    /\ sel' = [done |-> TRUE, lockedBefore |-> locked, at |-> now, tried |-> 0,
               status |-> status]
    /\ UNCHANGED <<subsystems, now, txs, mu, pc, rq, ov, locked, smu>>

NextReply ==
    \/ \E req \in SelectRequests, accept \in Accepts : RpSelect(req, accept)
    \/ \E status \in {400, 500} : RpFail(status)

SpecReply == InitPick /\ [][NextReply]_vars

====
